---- MODULE Spec2Model ----
(***************************************************************************)
(* A model of libmm (marketmaker): the content store of src/libmm/sql.py,  *)
(* the loading of Variants and Blueprints, Variant.render, the discovery   *)
(* of extensions and the event dispatch of src/libmm/extension.py, the     *)
(* checks of src/libmm/checks.py and mmcli's generate command.             *)
(*                                                                         *)
(* Every public operation of the library is one action.  The code of an    *)
(* operation is written as operators over a record m, the "machine": the   *)
(* part of the program state the operation reads and writes while it runs  *)
(* (the session's records, the hooks' state, the deliveries made so far    *)
(* and whether an exception is propagating).                               *)
(***************************************************************************)
EXTENDS Integers, Sequences, FiniteSets, TLC

\* An optional value (Python's "x or None"): the empty tuple is None and
\* <<x>> is the value x.
None == <<>>
Some(x) == <<x>>
IsNone(o) == Len(o) = 0
Val(o) == o[1]

(***************************************************************************)
(* Bounds of the model.                                                    *)
(***************************************************************************)
\* number of hooks load_hooks_from_disk found
NumHooks == 2
\* number of variant files one call of ingest_variants_from_library visits
MaxLibFiles == 2
\* number of Blueprint documents loaded in one run
MaxBlueprints == 1
\* BlueprintLoaded deliveries of one Blueprint to one hook after which no
\* further direct call of emit_loaded is made
MaxLoadedSeen == 2

Hooks == 1..NumHooks

(***************************************************************************)
(* extension.py: event kinds (EventTypes) and hook handlers.               *)
(***************************************************************************)
EventTypes ==
    {"TestCaseRender", "DbOjectInit", "BlueprintLoaded", "CliExit", "CliStart",
     "Init", "Exit", "DbReady", "LinkTableReady"}

\* A hook's handler (AbstractUserHook.hook) is code the library does not
\* control.  The behaviours modelled:
\*   ok            returns
\*   raiseRecord   raises when it receives DbOjectInit
\*   raiseLoaded   raises when it receives BlueprintLoaded
\*   raiseRender   raises when it receives TestCaseRender
\*   reenter       on the first BlueprintLoaded it receives for a Blueprint,
\*                 calls emit_loaded() of that Blueprint, then returns
\*   raiseInit     raises when it receives Init
\*   construct     on DbReady, constructs a record of a table of its own (as
\*                 extensions/guidance.py does when it loads its documents)
\*   vectr         extensions/vectr.py: on TestCaseRender, adds x_vectr_id
\*                 and isv to the metadata of the payload
HookModes == {"ok", "raiseRecord", "raiseLoaded", "raiseRender", "reenter", "vectr"}
\* the ways the hook of a unit behaves in the runs of a whole process
ProcessHookModes == {"ok", "raiseInit", "raiseLoaded", "construct"}

HookRaises(mode, kind) ==
    \/ mode = "raiseRecord" /\ kind = "DbOjectInit"
    \/ mode = "raiseLoaded" /\ kind = "BlueprintLoaded"
    \/ mode = "raiseRender" /\ kind = "TestCaseRender"
    \/ mode = "raiseInit" /\ kind = "Init"

VARIABLES
    enabled,        \* ExtensionsManager.enabled (not disable_extensions)
    add_groups,     \* global_settings.add_groups
    hookMode,       \* hookMode[h]: the behaviour of hook h's handler
    hookSeen,       \* hookSeen[h]: Blueprints a re-entering hook has seen
    sessionFailed,  \* a flush of the one session failed and was not rolled back
    variants,       \* the Variant rows
    blueprints,     \* blueprints[b]: [loaded_flag, status] of Blueprint b
    groups,         \* the BlueprintGroup rows
    campaigns,      \* the BlueprintCampaign rows (in creation order)
    campVariants,   \* campVariants[c]: BlueprintCampaign.variants, a list
    overrides,      \* the VariantOverride rows
    vgroups,        \* vgroups[v]: Variant.groups, a list
    loadedSeen,     \* loadedSeen[b][h]: BlueprintLoaded deliveries of b to h
    last,           \* the last operation: its arguments and its outcome
    pc,             \* where the process is: importing the library, ready, ...
    run_checks,     \* global_settings.run_checks
    units,          \* units[i]: what the i-th file of the extensions directory is
    extensions,     \* ExtensionsManager.extensions: the units loaded, in order
    environ,        \* environ[h]: the environment variable of hook h's setting
    setting,        \* setting[h]: UserHookSetting.value of hook h's setting
    emitCount,      \* emitCount[kind]: emit_event calls made for Init and DbReady
    held,           \* the Variant object a script has constructed, if any
    firstParty,     \* firstParty[name]: the hook object of a shipped extension
    tables,         \* the rows of the tables the guidance extension keeps
    written         \* the files the shipped extensions have written

vars == <<enabled, add_groups, hookMode, hookSeen, sessionFailed, variants,
          blueprints, groups, campaigns, campVariants, overrides, vgroups,
          loadedSeen, last, pc, run_checks, units, extensions, environ, setting,
          emitCount, held, firstParty, tables, written>>

(***************************************************************************)
(* The machine an operation runs on, taken from the state it starts in.    *)
(***************************************************************************)
Machine ==
    [log |-> <<>>,            \* deliveries to hook handlers, in order
     raised |-> FALSE,        \* an exception is propagating
     errors |-> 0,            \* lines written with logger.error
     seen |-> hookSeen,
     failed |-> sessionFailed,
     variants |-> variants,
     bps |-> blueprints,
     groups |-> groups,
     campaigns |-> campaigns,
     campVariants |-> campVariants,
     overrides |-> overrides,
     vgroups |-> vgroups,
     skipped |-> <<>>,        \* the entries from_yaml skipped, for the record
     extensions |-> extensions,
     setting |-> setting,
     steps |-> <<>>,          \* what the operation did, in order, for the record
     payload |-> None,        \* the dictionary render hands to TestCaseRender
     manifest |-> <<>>,       \* the dictionaries a manifest holds, in order
     committed |-> None,      \* the rows at the last session.commit()
     loadedAt |-> <<>>]       \* the rows at each BlueprintLoaded emission

\* Sequencing.  Let(v, F) is F(v) with v worked out once; Then(m, F) goes on
\* with F from machine m unless an exception is propagating from it.
Let(v, F(_)) == CHOOSE r \in {F(x) : x \in {v}} : TRUE
Then(m, F(_)) == Let(m, LAMBDA x : IF x.raised THEN x ELSE F(x))

\* a step of the operation, put on record
Step(m, step, kind) == [m EXCEPT !.steps = Append(@, [step |-> step, kind |-> kind])]

\* logger.error(...)
LogError(m) == [m EXCEPT !.errors = @ + 1]
\* raise LoggedException(...): the constructor logs the message
RaiseLogged(m) == [LogError(m) EXCEPT !.raised = TRUE]
\* an except clause took the exception
Caught(m) == [m EXCEPT !.raised = FALSE]

(***************************************************************************)
(* extension.py: ExtensionsManager.emit_event and sql.py:                  *)
(* Blueprint.emit_loaded.  A handler that re-enters emit_loaded makes the  *)
(* two mutually recursive.                                                 *)
(***************************************************************************)
RECURSIVE emit_loaded(_, _)
RECURSIVE emit_event(_, _, _)

\* VectrHook.do_render(context): the payload's metadata has no "tools" and
\* no "references" key, so only the two keys are added
do_render(variant) ==
    [variant EXCEPT !.metadata =
        [x_vectr_id |-> Some(variant.metadata.id), isv |-> Some(1)] @@ @]

\* attackmigrate.MIGRATION_MAP
MIGRATION_MAP == [technique_id \in {"T1574.002"} |-> "T1574.001"]

\* AttackMigrateHook.do_render
AttackMigrateHook_do_render(variant) ==
    IF variant.metadata.tid \in DOMAIN MIGRATION_MAP
    THEN [variant EXCEPT !.metadata.tid = MIGRATION_MAP[@]]
    ELSE variant

\* a TestCaseRender handler that also saves the new Technique ID in the
\* Variant the dictionary was rendered from
AttackMigrateHook_hook_savesVariant(m) ==
    [m EXCEPT !.payload = Some(AttackMigrateHook_do_render(Val(@))),
              !.variants =
                 {IF v.id = Val(m.payload).metadata.id
                  THEN [v EXCEPT !.tid =
                          AttackMigrateHook_do_render(Val(m.payload)).metadata.tid]
                  ELSE v : v \in @}]

\* AttackMigrateHook.hook on TestCaseRender
AttackMigrateHook_hook(m) ==
    [m EXCEPT !.payload = Some(AttackMigrateHook_do_render(Val(@)))]

\* extension.hook.hook(event.event_type, event.context(...)) for hook h.  The
\* context of TestCaseRender holds the dictionary itself, so the handler
\* sees what the handlers before it made of it.
HookCall(m, h, kind, ctx) ==
    Let([m EXCEPT !.log = Append(@, [hook |-> h, kind |-> kind,
                                     ctx |-> IF kind = "TestCaseRender"
                                             THEN Val(m.payload) ELSE ctx,
                                     \* what the hook reads of its setting
                                     setting |-> m.setting[h]])],
        LAMBDA m1 :
          IF HookRaises(hookMode[h], kind)
          THEN [m1 EXCEPT !.raised = TRUE]
          ELSE IF hookMode[h] = "reenter" /\ kind = "BlueprintLoaded"
                   /\ ctx \notin m1.seen[h]
               THEN emit_loaded([m1 EXCEPT !.seen[h] = @ \cup {ctx}], ctx)
          ELSE IF hookMode[h] = "construct" /\ kind = "DbReady"
               THEN emit_event(m1, "DbOjectInit", <<"GuidanceDocument", h>>)
          ELSE IF hookMode[h] = "vectr" /\ kind = "TestCaseRender"
               THEN [m1 EXCEPT !.payload = Some(do_render(Val(@)))]
          ELSE IF hookMode[h] = "attackmigrate" /\ kind = "TestCaseRender"
               THEN AttackMigrateHook_hook(m1)
               ELSE m1)

\* the for loop of emit_event, from the h-th loaded extension on: an
\* exception leaves the loop
RECURSIVE Dispatch(_, _, _, _)
Dispatch(m, kind, ctx, h) ==
    IF h > Len(m.extensions) THEN m
    ELSE Then(HookCall(m, m.extensions[h], kind, ctx),
              LAMBDA m1 : Dispatch(m1, kind, ctx, h + 1))

emit_event(m, kind, ctx) ==
    Let(Step(m, "emit", kind), LAMBDA m0 :
      IF enabled THEN Dispatch(m0, kind, ctx, 1) ELSE m0)

\* the rows of the Blueprint tables in the session
StoreOf(m) ==
    [groups |-> m.groups, campaigns |-> m.campaigns,
     campVariants |-> m.campVariants, overrides |-> m.overrides,
     vgroups |-> m.vgroups]

\* emit_loaded that marks the Blueprint only when extensions are enabled
emit_loaded_flagWhenEnabled(m, b) ==
    Let(m, LAMBDA m0 :
      IF ~m0.bps[b].loaded_flag
      THEN Then(emit_event([m0 EXCEPT !.loadedAt =
                               Append(@, [blueprint |-> b, store |-> StoreOf(m0),
                                          committed |-> m0.committed])],
                           "BlueprintLoaded", b),
                LAMBDA m1 : IF enabled THEN [m1 EXCEPT !.bps[b].loaded_flag = TRUE]
                            ELSE m1)
      ELSE m0)

\* Blueprint.emit_loaded(): the flag is set after the emission
emit_loaded(m, b) ==
    Let(m, LAMBDA m0 :
      IF ~m0.bps[b].loaded_flag
      THEN Then(emit_event([m0 EXCEPT !.loadedAt =
                               Append(@, [blueprint |-> b, store |-> StoreOf(m0),
                                          committed |-> m0.committed])],
                           "BlueprintLoaded", b),
                LAMBDA m1 : [m1 EXCEPT !.bps[b].loaded_flag = TRUE])
      ELSE m0)

\* SQLModel.__init__: the record's fields are set, then DbOjectInit is emitted
SQLModel_init(m, cls, id) == emit_event(m, "DbOjectInit", <<cls, id>>)

(***************************************************************************)
(* The one session.  A record added to the session is seen by every later  *)
(* query (queries flush first), so the model keeps no separate set of      *)
(* pending records.  A flush that fails leaves the session's transaction   *)
(* inactive until Session.rollback() is called, which the library never    *)
(* does: from then on every query and every commit raises.                 *)
(***************************************************************************)
\* what any session.query(...) or session.commit() does first
SessionUse(m) == IF m.failed THEN [m EXCEPT !.raised = TRUE] ELSE m

\* session.commit() of rows that violate no constraint
session_commit(m) ==
    Then(SessionUse(m), LAMBDA m1 : [m1 EXCEPT !.committed = Some(StoreOf(m1))])

(***************************************************************************)
(* sql.py: lookup_variant.                                                 *)
(***************************************************************************)
Digits == [c \in {"0", "1", "2", "3", "4", "5", "6", "7", "8", "9"} |->
             CASE c = "0" -> 0 [] c = "1" -> 1 [] c = "2" -> 2 [] c = "3" -> 3
               [] c = "4" -> 4 [] c = "5" -> 5 [] c = "6" -> 6 [] c = "7" -> 7
               [] c = "8" -> 8 [] c = "9" -> 9]

\* str.strip() for the blank
RECURSIVE LStrip(_)
LStrip(t) == IF t # <<>> /\ Head(t) = " " THEN LStrip(Tail(t)) ELSE t
RECURSIVE RStrip(_)
RStrip(t) ==
    IF t # <<>> /\ t[Len(t)] = " " THEN RStrip(SubSeq(t, 1, Len(t) - 1)) ELSE t
Strip(t) == RStrip(LStrip(t))

\* int(text): None where Python raises ValueError.  int() itself ignores
\* blanks around the digits.
RECURSIVE DecimalValue(_)
DecimalValue(t) ==
    IF t = <<>> THEN 0 ELSE 10 * DecimalValue(SubSeq(t, 1, Len(t) - 1)) + Digits[t[Len(t)]]
int(t) ==
    LET s == Strip(t)
    IN  IF s # <<>> /\ \A i \in 1..Len(s) : s[i] \in DOMAIN Digits
        THEN Some(DecimalValue(s)) ELSE None

\* str(n) of a natural number: its decimal numeral
RECURSIVE str(_)
str(n) ==
    LET digit(d) == CHOOSE c \in DOMAIN Digits : Digits[c] = d
    IN  IF n < 10 THEN <<digit(n)>> ELSE Append(str(n \div 10), digit(n % 10))

\* the rows of session.query(Variant).filter(name, version, tid)
VariantMatches(m, tid, name, n) ==
    {v \in m.variants : v.name = name /\ v.version = n /\ v.tid = tid}

\* lookup_variant(tid, name, version) with version an optional text: the
\* machine after the call and, when it returned, the Variant
lookup_variant(m, tid, name, version) ==
    Let(IF IsNone(version) THEN None ELSE int(Val(version)), LAMBDA n :
      IF IsNone(n) THEN [m |-> [m EXCEPT !.raised = TRUE], result |-> None]
      ELSE IF m.failed THEN [m |-> SessionUse(m), result |-> None]
      ELSE Let(VariantMatches(m, tid, name, Val(n)), LAMBDA results :
             IF Cardinality(results) = 1
             THEN [m |-> m, result |-> Some(CHOOSE v \in results : TRUE)]
             ELSE [m |-> RaiseLogged(m), result |-> None]))

(***************************************************************************)
(* sql.py: Variant.from_yaml, Variant.from_file and                        *)
(* ingest_variants_from_library.                                           *)
(*                                                                         *)
(* A variant file is <library>/<tid>/<name>/v<version>.yml.  The model     *)
(* gives each file by what from_file reads of it: name and version come    *)
(* from the path, id and tid from the document's metadata block.           *)
(***************************************************************************)
VariantFile(id, tid, name, version, display_name, guidance, references, tools) ==
    [id |-> id, tid |-> tid, name |-> name, version |-> version,
     display_name |-> display_name, guidance |-> guidance,
     references |-> references, tools |-> tools,
     tactic |-> "TA1", description |-> "d", platforms |-> <<"windows">>,
     block |-> <<>>, detect |-> <<"d1">>, controls |-> <<>>]

\* The files found under the library paths
FileA1 == VariantFile(Some("u1"), "T1", "a", 1, "A one", <<"g">>, <<"r">>, <<"t">>)
FileA2 == VariantFile(Some("u2"), "T1", "a", 2, "A two", <<"g">>, <<>>, <<>>)
\* a second library path holds another T1/a/v1.yml, with an id of its own
FileA1bis == VariantFile(Some("u3"), "T1", "a", 1, "A bis", <<>>, <<>>, <<>>)
\* a document with no declared id
FileNoId == VariantFile(None, "T1", "a", 3, "A three", <<>>, <<>>, <<>>)

Files == {FileA1, FileA2, FileA1bis, FileNoId}
VariantIds == {"u1", "u2", "u3"}

\* The files one call visits, in rglob order.  A file visited by a second
\* call declares an id the store already holds.
Libraries ==
    {lib \in UNION {[1..n -> Files] : n \in 1..MaxLibFiles} :
        \A i, j \in 1..Len(lib) : lib[i] = lib[j] => i = j}

\* the Variant row a file's document makes: cls(**kwargs, **y, **y["metadata"])
VariantOf(f) == [f EXCEPT !.id = Val(f.id)]

\* session.add(o); session.commit() for a Variant: the primary key id is
\* unique, nothing else is
Variant_commit(m, v) ==
    Then(SessionUse(m), LAMBDA m1 :
      IF \E w \in m1.variants : w.id = v.id
      THEN [m1 EXCEPT !.raised = TRUE, !.failed = TRUE]
      ELSE [m1 EXCEPT !.variants = @ \cup {v}])

\* Variant.from_file(variant_file), through Variant.from_yaml
Variant_from_file(m, f) ==
    IF IsNone(f.id) THEN RaiseLogged(m)
    ELSE Then(SQLModel_init(m, "Variant", Val(f.id)),
              LAMBDA m1 : Variant_commit(m1, VariantOf(f)))

\* the loop of ingest_variants_from_library from file i on; exceptions is
\* the flag the loop keeps
RECURSIVE IngestLoop(_, _, _, _)
IngestLoop(m, lib, i, exceptions) ==
    IF i > Len(lib)
    THEN IF exceptions THEN RaiseLogged(m) ELSE m
    ELSE Let(Variant_from_file(m, lib[i]), LAMBDA m1 :
           IF m1.raised
           THEN IngestLoop(LogError(Caught(m1)), lib, i + 1, TRUE)
           ELSE IngestLoop(m1, lib, i + 1, exceptions))

ingest_variants_from_library(m, lib) == IngestLoop(m, lib, 1, FALSE)

(***************************************************************************)
(* sql.py: Blueprint.from_yaml.                                            *)
(*                                                                         *)
(* A Blueprint document is                                                 *)
(*   groups:    group name -> [tid]                                        *)
(*   campaigns: campaign name -> tid -> variant name -> variant_block      *)
(* given here in the order the loops visit it: groups is the list of       *)
(* (group name, tid) pairs, campaigns the list of campaigns, each with the *)
(* list of its (tid, variant name, variant_block) entries.                 *)
(***************************************************************************)
\* variant_block, an integer or a string: text is str(variant_block)
IntBlock(text) == [form |-> "int", text |-> text]
StrBlock(text) == [form |-> "str", text |-> text]
\* variant_block, a dict: each key is there (Some) or not (None)
DictBlock(version, name, guidance, references) ==
    [form |-> "dict", version |-> version, name |-> name,
     guidance |-> guidance, references |-> references]

Entry(tid, name, block) == [tid |-> tid, name |-> name, block |-> block]

\* versions.split(";")
RECURSIVE Split(_, _)
Split(t, acc) ==
    IF t = <<>> THEN <<acc>>
    ELSE IF Head(t) = ";" THEN <<acc>> \o Split(Tail(t), <<>>)
    ELSE Split(Tail(t), Append(acc, Head(t)))

\* Versions without the split at ";": the whole text is one version
Versions_unsplit(block) ==
    IF block.form \in {"int", "str"} THEN <<Some(block.text)>> ELSE <<block.version>>

\* lines 387-396: the versions of a variant_block, each what is handed to
\* lookup_variant
Versions(block) ==
    IF block.form \in {"int", "str"}
    THEN IF \E i \in 1..Len(block.text) : block.text[i] = ";"
         THEN LET parts == Split(block.text, <<>>)
              IN  [i \in 1..Len(parts) |-> Some(Strip(parts[i]))]
         ELSE <<Some(block.text)>>
    ELSE <<block.version>>

GroupId(b, name, tid) == <<b, name, tid>>
CampaignId(b, name) == <<b, name>>

\* lines 410-417: the VariantOverride the constructor call makes.  The call
\* passes the block's references under the keyword "referencces", which is
\* no field of VariantOverride, so the field references keeps its default.
VariantOverride(block, v, b, c) ==
    [variant_id |-> v.id, blueprint_id |-> b, campaign_id |-> c,
     references |-> None,
     guidance |-> block.guidance,
     display_name |-> block.name]

\* GroupMatches made only when the add_groups setting is on
GroupMatches_gated(m, tid, b) ==
    IF add_groups
    THEN SelectSeq(m.groups, LAMBDA g : g.tid = tid /\ g.blueprint_id = b)
    ELSE <<>>

\* lines 421-425: the BlueprintGroup rows with this tid and blueprint_id
GroupMatches(m, tid, b) ==
    SelectSeq(m.groups, LAMBDA g : g.tid = tid /\ g.blueprint_id = b)

\* lines 409-418: the override of a dict variant_block
AddOverride(m, b, c, e, v) ==
    IF e.block.form = "dict"
    THEN Then(SQLModel_init(m, "VariantOverride", <<v.id, b, c>>), LAMBDA m1 :
           [m1 EXCEPT !.overrides = @ \cup {VariantOverride(e.block, v, b, c)}])
    ELSE m

\* lines 420-426: variant.groups.extend(group_matches)
AttachGroups(m, b, e, v) ==
    Then(SessionUse(m), LAMBDA m1 :
      Let(GroupMatches(m1, e.tid, b), LAMBDA group_matches :
        [m1 EXCEPT !.vgroups[v.id] =
           @ \o [i \in 1..Len(group_matches) |-> group_matches[i].id]]))

\* lines 398-426 for one version of one entry
OneVersion(m, b, c, e, version) ==
    Let(lookup_variant(m, e.tid, e.name, version), LAMBDA r :
      IF r.m.raised
      THEN \* except Exception as e: logger.error(e); continue
           [LogError(Caught(r.m)) EXCEPT
               !.skipped = Append(@, [campaign |-> c, tid |-> e.tid,
                                      name |-> e.name, version |-> version])]
      ELSE Then(AddOverride([r.m EXCEPT !.campVariants[c] = Append(@, Val(r.result).id)],
                            b, c, e, Val(r.result)),
                LAMBDA m2 : AttachGroups(m2, b, e, Val(r.result))))

RECURSIVE VersionLoop(_, _, _, _, _, _)
VersionLoop(m, b, c, e, versions, i) ==
    IF i > Len(versions) THEN m
    ELSE Then(OneVersion(m, b, c, e, versions[i]),
              LAMBDA m1 : VersionLoop(m1, b, c, e, versions, i + 1))

RECURSIVE EntryLoop(_, _, _, _, _)
EntryLoop(m, b, c, entries, i) ==
    IF i > Len(entries) THEN m
    ELSE Then(VersionLoop(m, b, c, entries[i], Versions(entries[i].block), 1),
              LAMBDA m1 : EntryLoop(m1, b, c, entries, i + 1))

\* lines 370-372: BlueprintCampaign(name, blueprint); session.add(campaign)
AddCampaign(m, b, camp) ==
    Then(SQLModel_init(m, "BlueprintCampaign", CampaignId(b, camp.name)), LAMBDA m1 :
      [m1 EXCEPT
         !.campaigns = Append(@, [id |-> CampaignId(b, camp.name),
                                  name |-> camp.name, blueprint_id |-> b]),
         !.campVariants = @ @@ (CampaignId(b, camp.name) :> <<>>)])

RECURSIVE CampaignLoop(_, _, _, _)
CampaignLoop(m, b, camps, i) ==
    IF i > Len(camps) THEN m
    ELSE Then(AddCampaign(m, b, camps[i]), LAMBDA m1 :
           Then(EntryLoop(m1, b, CampaignId(b, camps[i].name), camps[i].entries, 1),
                LAMBDA m2 : CampaignLoop(m2, b, camps, i + 1)))

\* lines 363-367: BlueprintGroup(name, tid, blueprint); session.add(group)
AddGroup(m, b, pair) ==
    Then(SQLModel_init(m, "BlueprintGroup", GroupId(b, pair[1], pair[2])), LAMBDA m1 :
      [m1 EXCEPT !.groups =
         Append(@, [id |-> GroupId(b, pair[1], pair[2]), name |-> pair[1],
                    tid |-> pair[2], blueprint_id |-> b])])

RECURSIVE GroupLoop(_, _, _, _)
GroupLoop(m, b, pairs, i) ==
    IF i > Len(pairs) THEN m
    ELSE Then(AddGroup(m, b, pairs[i]), LAMBDA m1 : GroupLoop(m1, b, pairs, i + 1))

\* lines 357-358: blueprint = cls(**y, **metadata); session.add(blueprint)
AddBlueprint(m, b) ==
    Then(SQLModel_init(m, "Blueprint", b), LAMBDA m1 :
      [m1 EXCEPT !.bps = @ @@ (b :> [loaded_flag |-> FALSE, emit_called |-> FALSE,
                                     status |-> "raised"])])

\* from_yaml with emit_loaded called before the campaigns are read
Blueprint_from_yaml_emitEarly(m, doc, b) ==
    Then(AddBlueprint(m, b), LAMBDA m2 :
    Then(GroupLoop(m2, b, doc.groups, 1), LAMBDA m3 :
    Then(session_commit(m3), LAMBDA m4 :
    Then(emit_loaded([m4 EXCEPT !.bps[b].emit_called = TRUE], b), LAMBDA m5 :
    Then(CampaignLoop(m5, b, doc.campaigns, 1), LAMBDA m6 :
    [m6 EXCEPT !.bps[b].status = "returned"])))))

\* Blueprint.from_yaml(y) for the document doc; b is the id of the new
\* Blueprint.  status tells how the call ended.
Blueprint_from_yaml(m, doc, b) ==
    Then(AddBlueprint(m, b), LAMBDA m2 :
    Then(GroupLoop(m2, b, doc.groups, 1), LAMBDA m3 :
    Then(CampaignLoop(m3, b, doc.campaigns, 1), LAMBDA m4 :
    Then(session_commit(m4), LAMBDA m5 :
    Then(emit_loaded([m5 EXCEPT !.bps[b].emit_called = TRUE], b), LAMBDA m6 :
    [m6 EXCEPT !.bps[b].status = "returned"])))))

(***************************************************************************)
(* sql.py: Variant.render.                                                 *)
(***************************************************************************)
\* Python's truth of an optional string and of an optional list
TruthyStr(o) == ~IsNone(o) /\ Val(o) # ""
TruthyList(o) == ~IsNone(o) /\ Val(o) # <<>>

\* the rows of session.query(VariantOverride).filter(variant_id, blueprint_id)
OverrideMatches(m, v, b) ==
    {o \in m.overrides : o.variant_id = v.id /\ o.blueprint_id = b}

\* lines 225-229: an x_ metadata value that is deleted from the dictionary
EmptyMetadata(o) == IsNone(o) \/ Val(o) = <<>> \/ Val(o) = <<"">>

\* RenderDict with the override's guidance left out
RenderDict_noGuidance(m, v, override) ==
    LET x_references == IF ~IsNone(override) /\ TruthyList(Val(override).references)
                        THEN Val(override).references ELSE Some(v.references)
        names == {m.groups[i].name : i \in {j \in 1..Len(m.groups) :
                    \E k \in 1..Len(m.vgroups[v.id]) : m.vgroups[v.id][k] = m.groups[j].id}}
    IN  [name |-> IF ~IsNone(override) /\ TruthyStr(Val(override).display_name)
                  THEN Val(Val(override).display_name) ELSE v.display_name,
         description |-> v.description, platforms |-> v.platforms,
         guidance |-> v.guidance,
         block |-> v.block, detect |-> v.detect, controls |-> v.controls,
         metadata |-> [id |-> v.id, tid |-> v.tid, tactic |-> v.tactic,
                       x_tools |-> IF EmptyMetadata(Some(v.tools)) THEN None
                                   ELSE Some(v.tools),
                       x_references |-> IF EmptyMetadata(x_references) THEN None
                                        ELSE x_references,
                       groups |-> IF add_groups /\ Len(m.vgroups[v.id]) > 0
                                  THEN Some(names) ELSE None]]

\* lines 176-254: the dictionary render builds.  override is the row
\* .first() returned, None when the query was not made or matched nothing.
RenderDict(m, v, override) ==
    LET x_references == IF ~IsNone(override) /\ TruthyList(Val(override).references)
                        THEN Val(override).references ELSE Some(v.references)
        names == {m.groups[i].name : i \in {j \in 1..Len(m.groups) :
                    \E k \in 1..Len(m.vgroups[v.id]) : m.vgroups[v.id][k] = m.groups[j].id}}
    IN  [name |-> IF ~IsNone(override) /\ TruthyStr(Val(override).display_name)
                  THEN Val(Val(override).display_name) ELSE v.display_name,
         description |-> v.description, platforms |-> v.platforms,
         guidance |-> IF ~IsNone(override) /\ TruthyList(Val(override).guidance)
                      THEN Val(Val(override).guidance) ELSE v.guidance,
         block |-> v.block, detect |-> v.detect, controls |-> v.controls,
         metadata |-> [id |-> v.id, tid |-> v.tid, tactic |-> v.tactic,
                       x_tools |-> IF EmptyMetadata(Some(v.tools)) THEN None
                                   ELSE Some(v.tools),
                       x_references |-> IF EmptyMetadata(x_references) THEN None
                                        ELSE x_references,
                       groups |-> IF add_groups /\ Len(m.vgroups[v.id]) > 0
                                  THEN Some(names) ELSE None]]

\* the rows .first() may return: the query has no ORDER BY
FirstOverride(m, v, apply_overrides, blueprint_id) ==
    IF apply_overrides /\ ~IsNone(blueprint_id)
       /\ OverrideMatches(m, v, Val(blueprint_id)) # {}
    THEN {Some(o) : o \in OverrideMatches(m, v, Val(blueprint_id))}
    ELSE {None}

\* render that returns a copy of the dictionary made before the emission
render_returnsCopy(m, v, apply_overrides, blueprint_id, first) ==
    Let(IF apply_overrides /\ ~IsNone(blueprint_id) THEN SessionUse(m) ELSE m,
        LAMBDA m1 :
          IF m1.raised THEN [m |-> m1, result |-> None]
          ELSE Let(RenderDict(m1, v, first), LAMBDA final_dict :
                 Let(emit_event([m1 EXCEPT !.payload = Some(final_dict)],
                                "TestCaseRender", final_dict),
                     LAMBDA m2 :
                       IF m2.raised THEN [m |-> m2, result |-> None]
                       ELSE [m |-> m2, result |-> Some(final_dict)])))

\* Variant.render(apply_overrides, blueprint_id) of v, with first the row
\* the override query returned: the machine after the call and, when it
\* returned, the dictionary
render(m, v, apply_overrides, blueprint_id, first) ==
    Let(IF apply_overrides /\ ~IsNone(blueprint_id) THEN SessionUse(m) ELSE m,
        LAMBDA m1 :
          IF m1.raised THEN [m |-> m1, result |-> None]
          ELSE Let(RenderDict(m1, v, first), LAMBDA final_dict :
                 Let(emit_event([m1 EXCEPT !.payload = Some(final_dict)],
                                "TestCaseRender", final_dict),
                     LAMBDA m2 :
                       IF m2.raised THEN [m |-> m2, result |-> None]
                       \* return final_dict: the object the handlers were given
                       ELSE [m |-> m2, result |-> m2.payload])))

(***************************************************************************)
(* The Blueprint documents loaded.                                         *)
(***************************************************************************)
\* groups: {g1: [T1], g2: [T2]}
GroupChoices == {<<>>, << <<"g1", "T1">>, <<"g2", "T2">> >>}

\* the variant_block given for T1 -> a.  Every dict block gives a name:
\* display_name is a required column of VariantOverride.
BlocksA ==
    {IntBlock(<<"1">>),
     \* version 3 is in no library and the third version is empty
     StrBlock(<<"1", ";", "3", ";", ";", " ", "2">>),
     DictBlock(Some(<<"1">>), Some("N"), None, Some(<<"r2">>)),
     DictBlock(Some(<<"2">>), Some(""), Some(<<"og">>), None)}

\* the first campaign: T1 -> a
FirstCampaigns ==
    {[name |-> "c1", entries |-> <<Entry("T1", "a", blk)>>] : blk \in BlocksA}

\* the second campaign, when there is one, enters T1 -> a again, and T2 -> b,
\* which no library holds
SecondCampaigns ==
    {<<>>,
     <<[name |-> "c2", entries |->
          <<Entry("T1", "a", IntBlock(<<"1">>)),
            Entry("T2", "b", IntBlock(<<"1">>))>>]>>,
     <<[name |-> "c2", entries |->
          <<Entry("T1", "a", DictBlock(Some(<<"1">>), Some("M"), Some(<<"og2">>), None))>>]>>}

Docs ==
    {[groups |-> g, campaigns |-> <<c1>> \o c2] :
        g \in GroupChoices, c1 \in FirstCampaigns, c2 \in SecondCampaigns}

(***************************************************************************)
(* extension.py: discovery and start-up.  The files of the extensions      *)
(* directory are the units 1..NumHooks, in rglob order; unit i, when it is *)
(* a hook, is hook i.                                                      *)
(***************************************************************************)
\* what a file is: a module with a hook instance, a module that raises when
\* it is executed, a module with no attribute "hook"
UnitKinds == {"hook", "raises", "nohook"}

\* the for loop of load_hooks_from_disk from file i on, with extensions
\* the list so far: exec_module and getattr(module, "hook") are in no try
\* block.  The manager takes the list when the function returns.
RECURSIVE load_hooks_from_disk(_, _, _)
load_hooks_from_disk(m, i, exts) ==
    IF i > NumHooks THEN Step([m EXCEPT !.extensions = exts], "discovery", "")
    ELSE IF units[i] = "hook"
         THEN load_hooks_from_disk(m, i + 1, Append(exts, i))
         ELSE [m EXCEPT !.raised = TRUE]

\* UserHookSetting.value_callback(value) of the setting of hook h
value_callback(m, h, value) == [m EXCEPT !.setting[h] = value]

\* the loop of process_env_vars from the i-th extension on:
\* if value := os.getenv(ev, None)
RECURSIVE EnvLoop(_, _)
EnvLoop(m, i) ==
    IF i > Len(m.extensions) THEN m
    ELSE Let(IF TruthyStr(environ[m.extensions[i]])
             THEN value_callback(m, m.extensions[i], environ[m.extensions[i]])
             ELSE m,
             LAMBDA m1 : EnvLoop(m1, i + 1))

process_env_vars(m) == Step(EnvLoop(m, 1), "env", "")

\* ExtensionsManager.__init__ with the environment read after Init
ExtensionsManager_init_envLast(m) ==
    IF enabled
    THEN Then(load_hooks_from_disk(m, 1, <<>>), LAMBDA m1 :
         Then(emit_event(m1, "Init", <<>>), LAMBDA m2 : process_env_vars(m2)))
    ELSE m

\* ExtensionsManager.__init__
ExtensionsManager_init(m) ==
    IF enabled
    THEN Then(load_hooks_from_disk(m, 1, <<>>), LAMBDA m1 :
         Let(process_env_vars(m1), LAMBDA m2 : emit_event(m2, "Init", <<>>)))
    ELSE m

\* import_sql with DbReady emitted before the ExtensionsManager is made
import_sql_readyFirst(m) ==
    Then(emit_event(Step(m, "create_all", ""), "DbReady", <<>>),
         LAMBDA m1 : ExtensionsManager_init(m1))

\* import libmm.sql, as mmcli's first import of the library makes it: the
\* module body creates the schema, then imports libmm.extension, whose body
\* constructs the ExtensionsManager, then emits DbReady
import_sql(m) ==
    Then(ExtensionsManager_init(Step(m, "create_all", "")),
         LAMBDA m1 : emit_event(m1, "DbReady", <<>>))

(***************************************************************************)
(* inject.py: the options of the hooks' settings on mmcli's commands.      *)
(***************************************************************************)
\* the value click gives the option of hook h's setting: the one of the
\* command line, else the one of envvar when it is not empty, else None
OptionValue(cli, h) ==
    IF ~IsNone(cli[h]) THEN cli[h]
    ELSE IF TruthyStr(environ[h]) THEN environ[h] ELSE None

\* cli_callback for the option of each loaded extension, from the i-th on
RECURSIVE cli_callback(_, _, _)
cli_callback(m, cli, i) ==
    IF i > Len(m.extensions) THEN m
    ELSE Let(value_callback(m, m.extensions[i], OptionValue(cli, m.extensions[i])),
             LAMBDA m1 : cli_callback(m1, cli, i + 1))

(***************************************************************************)
(* checks.py.                                                              *)
(***************************************************************************)
\* get_valid_tactic_ids_for_tid(tid): the tactics the ATT&CK data maps the
\* technique to, none for a technique it does not know
get_valid_tactic_ids_for_tid(tid) == IF tid = "T1" THEN {"TA1"} ELSE {}

\* Path(filepath).parent.parent.name of <tid>/<name>/<version>.yml
PathTid(filepath) == filepath[Len(filepath) - 2]

\* the Variants a script constructs: filepath is None when the call gives
\* none
CheckVariants ==
    {[id |-> "c", tid |-> "T1", tactic |-> tactic, filepath |-> filepath] :
        tactic \in {"TA1", "TA9"},
        filepath \in {None, Some(<<"T1", "a", "v1.yml">>),
                      Some(<<"T2", "a", "v1.yml">>)}}

\* VariantCheck.__subclasses__(), in the order of their definition
Subclasses == <<"VariantsTacticTidAgreement", "VariantTidPathTidMatch">>

\* cls.check(variant): resolve_str_or_path(None) is Path(None), a TypeError
check(m, cls, variant) ==
    IF cls = "VariantsTacticTidAgreement"
    THEN [m |-> m, result |-> Some(variant.tactic \in
                                   get_valid_tactic_ids_for_tid(variant.tid))]
    ELSE IF IsNone(variant.filepath)
         THEN [m |-> [m EXCEPT !.raised = TRUE], result |-> None]
         ELSE [m |-> m, result |-> Some(PathTid(Val(variant.filepath)) = variant.tid)]

\* VariantCheck.main(variant): the result is logged as info or as error
VariantCheck_main(m, cls, variant) ==
    Let(check(Step(m, "check", cls), cls, variant), LAMBDA r :
      IF r.m.raised \/ Val(r.result) THEN r
      ELSE [m |-> LogError(r.m), result |-> r.result])

\* Check.run(variant)
Check_run(m, cls, variant) ==
    IF run_checks THEN VariantCheck_main(m, cls, variant)
    ELSE [m |-> m, result |-> Some(TRUE)]

\* [subclass.run(variant) for subclass in subclasses], from the i-th on;
\* results is the list so far
RECURSIVE RunEach(_, _, _, _)
RunEach(m, variant, i, results) ==
    IF i > Len(Subclasses) THEN [m |-> m, result |-> Some(results)]
    ELSE Let(Check_run(m, Subclasses[i], variant), LAMBDA r :
           IF r.m.raised THEN r
           ELSE RunEach(r.m, variant, i + 1, Append(results, Val(r.result))))

\* all(results)
all(results) == \A i \in 1..Len(results) : results[i]

\* run_all that stops at the first check that fails
run_all_shortCircuit(m, variant) ==
    Let(Check_run(m, Subclasses[1], variant), LAMBDA r1 :
      IF r1.m.raised \/ ~Val(r1.result) THEN r1
      ELSE Check_run(r1.m, Subclasses[2], variant))

\* VariantChecks.run_all(variant)
run_all(m, variant) ==
    Let(RunEach(m, variant, 1, <<>>), LAMBDA r :
      IF r.m.raised THEN r ELSE [m |-> r.m, result |-> Some(all(Val(r.result)))])

\* Variant(**fields): SQLModel.__init__ calls __post_init__, which runs
\* VariantTidPathTidMatch and drops its result, then emits DbOjectInit
Variant_init(m, variant) ==
    Let(Check_run(m, "VariantTidPathTidMatch", variant), LAMBDA r :
      IF r.m.raised THEN r
      ELSE [m |-> SQLModel_init(r.m, "Variant", variant.id), result |-> r.result])

(***************************************************************************)
(* scripts/mmcli.py: generate.                                             *)
(***************************************************************************)
\* the library path given with -t
GenerateLibrary == <<FileA1, FileA2>>

\* the Blueprint files given with -b: two documents of one campaign, and a
\* file that is not a Blueprint document (None)
GenerateDocs ==
    {Some([groups |-> <<>>, campaigns |-> <<[name |-> "c1", entries |->
              <<Entry("T1", "a", blk)>>]>>]) :
        blk \in {IntBlock(<<"1">>),
                 DictBlock(Some(<<"2">>), Some("N"), Some(<<"og">>), None)}}
    \cup {None}

\* what -o names: no file, a file, a file that cannot be written
Outputs == {"none", "file", "unwritable"}

\* Blueprint.from_file(filepath): load_yaml_from_file, then from_yaml
Blueprint_from_file(m, doc, b) ==
    IF IsNone(doc) THEN [m EXCEPT !.raised = TRUE]
    ELSE Blueprint_from_yaml(m, Val(doc), b)

\* the places of a manifest of Blueprint b: campaign and position
ManifestSlots(m, b) ==
    UNION {{<<m.campaigns[k].id, i>> :
               i \in 1..Len(m.campVariants[m.campaigns[k].id])} :
           k \in {n \in DOMAIN m.campaigns : m.campaigns[n].blueprint_id = b}}

\* the Variant at a place
SlotVariant(m, slot) ==
    CHOOSE v \in m.variants : v.id = m.campVariants[slot[1]][slot[2]]

\* the rows the override queries of one manifest may return, place by place
Picks(m, b) ==
    {pick \in [ManifestSlots(m, b) -> {None} \cup {Some(o) : o \in m.overrides}] :
        \A slot \in ManifestSlots(m, b) :
            pick[slot] \in FirstOverride(m, SlotVariant(m, slot), TRUE, Some(b))}

\* gen_manifest_from_campaigns: the renders of the variants of campaign c
\* from the i-th on; pick[<<c, i>>] is the row .first() returns there
RECURSIVE RenderLoop(_, _, _, _, _)
RenderLoop(m, b, c, i, pick) ==
    IF i > Len(m.campVariants[c]) THEN m
    ELSE Let(render(m, SlotVariant(m, <<c, i>>), TRUE, Some(b), pick[<<c, i>>]),
             LAMBDA r :
               IF r.m.raised THEN r.m
               ELSE RenderLoop([r.m EXCEPT !.manifest =
                                   Append(@, [campaign |-> c,
                                              variant |-> m.campVariants[c][i],
                                              rendered |-> Val(r.result)])],
                               b, c, i + 1, pick))

\* gen_manifest_from_campaigns(blueprint.child_campaigns, ...), from the
\* i-th campaign row on
RECURSIVE gen_manifest_from_campaigns(_, _, _, _)
gen_manifest_from_campaigns(m, b, i, pick) ==
    IF i > Len(m.campaigns) THEN m
    ELSE IF m.campaigns[i].blueprint_id # b
    THEN gen_manifest_from_campaigns(m, b, i + 1, pick)
    ELSE Then(RenderLoop(m, b, m.campaigns[i].id, 1, pick),
              LAMBDA m1 : gen_manifest_from_campaigns(m1, b, i + 1, pick))

\* lines 47-50: the manifest export and its dump_yaml_to_file.  The
\* documents of GenerateDocs give a Variant at most one Override, so the
\* row .first() returns is determined.
export_manifest(m, b, output) ==
    IF output = "none" THEN m
    ELSE Then(gen_manifest_from_campaigns(m, b, 1,
                                          CHOOSE pick \in Picks(m, b) : TRUE),
              LAMBDA m1 :
                IF output = "unwritable" THEN [m1 EXCEPT !.raised = TRUE] ELSE m1)

\* generate(techniques, blueprint, output)
generate(m, doc, output) ==
    Then(ingest_variants_from_library(m, GenerateLibrary), LAMBDA m1 :
    Then(emit_event(m1, "CliStart", <<>>), LAMBDA m2 :
    Then(Blueprint_from_file(m2, doc, 1), LAMBDA m3 :
    Then(export_manifest(m3, 1, output), LAMBDA m4 :
    emit_event(m4, "CliExit", <<>>)))))

(***************************************************************************)
(* The state machine.                                                      *)
(***************************************************************************)
AllOk == [h \in Hooks |-> "ok"]
\* at most one hook misbehaves
HookConfigs ==
    {AllOk} \cup {[AllOk EXCEPT ![h] = mode] : h \in Hooks, mode \in HookModes}

Init ==
    /\ enabled \in BOOLEAN
    /\ add_groups \in BOOLEAN
    /\ hookMode \in HookConfigs
    /\ enabled = FALSE => hookMode = AllOk
    /\ add_groups = TRUE => hookMode = AllOk
    /\ hookSeen = [h \in Hooks |-> {}]
    /\ sessionFailed = FALSE
    /\ variants = {}
    /\ blueprints = <<>>
    /\ groups = <<>>
    /\ campaigns = <<>>
    /\ campVariants = <<>>
    /\ overrides = {}
    /\ vgroups = [id \in VariantIds |-> <<>>]
    /\ loadedSeen = <<>>
    /\ last = [op |-> "init"]
    \* the library has been imported: every unit was loaded and no setting
    \* was given
    /\ pc = "ready"
    /\ run_checks = TRUE
    /\ units = [h \in Hooks |-> "hook"]
    /\ extensions = IF enabled THEN [h \in Hooks |-> h] ELSE <<>>
    /\ environ = [h \in Hooks |-> None]
    /\ setting = [h \in Hooks |-> None]
    /\ emitCount = [kind \in {"Init", "DbReady"} |->
                      IF kind = "Init" /\ ~enabled THEN 0 ELSE 1]
    /\ held = None
    /\ firstParty = <<>>
    /\ tables = <<>>
    /\ written = {}

\* the BlueprintLoaded deliveries of Blueprint b to hook h in a log
LoadedIn(log, b, h) ==
    Cardinality({i \in 1..Len(log) :
        log[i].kind = "BlueprintLoaded" /\ log[i].hook = h /\ log[i].ctx = b})

\* the rows and the hooks' memory an operation leaves, from the machine it
\* ended on
LeavesStore(m) ==
    /\ hookSeen' = m.seen
    /\ sessionFailed' = m.failed
    /\ variants' = m.variants
    /\ blueprints' = m.bps
    /\ groups' = m.groups
    /\ campaigns' = m.campaigns
    /\ campVariants' = m.campVariants
    /\ overrides' = m.overrides
    /\ vgroups' = m.vgroups
    /\ loadedSeen' = [b \in DOMAIN m.bps |->
                        [h \in Hooks |->
                            (IF b \in DOMAIN loadedSeen THEN loadedSeen[b][h] ELSE 0)
                            + LoadedIn(m.log, b, h)]]
    /\ UNCHANGED <<enabled, add_groups, hookMode, run_checks, units, environ,
                   firstParty, tables, written>>

\* the state an operation of the imported library leaves
Leaves(m) ==
    /\ LeavesStore(m)
    /\ UNCHANGED <<pc, extensions, setting, emitCount, held>>

\* init_db(variants_paths), before any Blueprint is loaded (the order of
\* mmcli's commands)
Ingest ==
    /\ DOMAIN blueprints = {}
    /\ \E lib \in Libraries :
         LET m == ingest_variants_from_library(Machine, lib)
         IN  /\ Leaves(m)
             /\ last' = [op |-> "ingest", lib |-> lib, raised |-> m.raised,
                         errors |-> m.errors, log |-> m.log,
                         before |-> variants, failedBefore |-> sessionFailed]

\* Blueprint.from_yaml(document)
LoadBlueprint ==
    /\ Cardinality(DOMAIN blueprints) < MaxBlueprints
    /\ \E doc \in Docs :
         LET b == Cardinality(DOMAIN blueprints) + 1
             m == Blueprint_from_yaml(Machine, doc, b)
         IN  /\ Leaves(m)
             /\ last' = [op |-> "from_yaml", doc |-> doc, blueprint |-> b,
                         raised |-> m.raised, errors |-> m.errors, log |-> m.log,
                         skipped |-> m.skipped, steps |-> m.steps,
                         loadedAt |-> m.loadedAt]

\* a later call of blueprint.emit_loaded()
EmitLoaded ==
    \E b \in DOMAIN blueprints :
        /\ \A h \in Hooks : loadedSeen[b][h] < MaxLoadedSeen
        /\ LET m == emit_loaded([Machine EXCEPT !.bps[b].emit_called = TRUE], b)
           IN  /\ Leaves(m)
               /\ last' = [op |-> "emit_loaded", blueprint |-> b,
                           raised |-> m.raised, log |-> m.log]

\* variant.render(apply_overrides, blueprint_id)
Render ==
    \E v \in variants, apply_overrides \in BOOLEAN,
       blueprint_id \in {None} \cup {Some(b) : b \in DOMAIN blueprints} :
      \E first \in FirstOverride(Machine, v, apply_overrides, blueprint_id) :
        LET r == render(Machine, v, apply_overrides, blueprint_id, first)
        IN  /\ Leaves(r.m)
            /\ last' = [op |-> "render", variant |-> v,
                        apply_overrides |-> apply_overrides,
                        blueprint_id |-> blueprint_id,
                        raised |-> r.m.raised, result |-> r.result, log |-> r.m.log,
                        steps |-> r.m.steps]

Next == Ingest \/ LoadBlueprint \/ EmitLoaded \/ Render

Spec == Init /\ [][Next]_vars

\* The runs in which no hook's handler raises.
InitQuiet == Init /\ \A h \in Hooks : hookMode[h] \in {"ok", "reenter"}
SpecQuiet == InitQuiet /\ [][Next]_vars

(***************************************************************************)
(* The run of one process: it imports the library, then it is either       *)
(* mmcli, which parses its command line and runs generate, or a script     *)
(* that constructs Variants and runs the checks on them.                   *)
(***************************************************************************)
\* the settings a run starts with: the defaults, with at most one of them
\* changed or one unit out of the ordinary
ProcessConfigs ==
    LET default == [enabled |-> TRUE, run_checks |-> TRUE,
                    units |-> [g \in Hooks |-> "hook"], hookMode |-> AllOk]
    IN  {default, [default EXCEPT !.enabled = FALSE],
         [default EXCEPT !.run_checks = FALSE]}
        \cup {[default EXCEPT !.units[h] = kind] :
                h \in Hooks, kind \in UnitKinds}
        \cup {[default EXCEPT !.hookMode[h] = mode] :
                h \in Hooks, mode \in ProcessHookModes}

\* the environment: at most one of the settings' variables is set, to the
\* empty string or to "e"
Environs ==
    {[g \in Hooks |-> None]}
    \cup {[[g \in Hooks |-> None] EXCEPT ![h] = Some(value)] :
            h \in Hooks, value \in {"", "e"}}

InitProcess ==
    /\ \E c \in ProcessConfigs :
         /\ enabled = c.enabled
         /\ run_checks = c.run_checks
         /\ units = c.units
         /\ hookMode = c.hookMode
    /\ environ \in Environs
    /\ add_groups = FALSE
    /\ hookSeen = [h \in Hooks |-> {}]
    /\ sessionFailed = FALSE
    /\ variants = {}
    /\ blueprints = <<>>
    /\ groups = <<>>
    /\ campaigns = <<>>
    /\ campVariants = <<>>
    /\ overrides = {}
    /\ vgroups = [id \in VariantIds |-> <<>>]
    /\ loadedSeen = <<>>
    /\ last = [op |-> "init"]
    /\ pc = "import"
    /\ extensions = <<>>
    /\ setting = [h \in Hooks |-> None]
    /\ emitCount = [kind \in {"Init", "DbReady"} |-> 0]
    /\ held = None
    /\ firstParty = <<>>
    /\ tables = <<>>
    /\ written = {}

\* the emit_event calls for kind among steps
Emitted(steps, kind) ==
    Cardinality({i \in 1..Len(steps) :
        steps[i].step = "emit" /\ steps[i].kind = kind})

\* the process imports the library; an exception out of the import ends it
ImportLibrary ==
    /\ pc = "import"
    /\ LET m == import_sql(Machine)
       IN  /\ LeavesStore(m)
           /\ pc' = IF m.raised THEN "crashed" ELSE "ready"
           /\ extensions' = m.extensions
           /\ setting' = m.setting
           /\ emitCount' = [kind \in {"Init", "DbReady"} |-> Emitted(m.steps, kind)]
           /\ held' = held
           /\ last' = [op |-> "import", raised |-> m.raised, steps |-> m.steps,
                       log |-> m.log]

\* click parses mmcli's command line: the callback of every option runs
ParseCli ==
    /\ pc = "ready"
    /\ \E cli \in [Hooks -> {None, Some("c")}] :
         LET m == cli_callback(Machine, cli, 1)
         IN  /\ LeavesStore(m)
             /\ pc' = "parsed"
             /\ setting' = m.setting
             /\ UNCHANGED <<extensions, emitCount, held>>
             /\ last' = [op |-> "cli", cli |-> cli, before |-> setting]

\* the body of generate
Generate ==
    /\ pc = "parsed"
    /\ \E doc \in GenerateDocs, output \in Outputs :
         LET m == generate(Machine, doc, output)
         IN  /\ LeavesStore(m)
             /\ pc' = IF m.raised THEN "failed" ELSE "done"
             /\ UNCHANGED <<extensions, setting, emitCount, held>>
             /\ last' = [op |-> "generate", doc |-> doc, output |-> output,
                         raised |-> m.raised, steps |-> m.steps, log |-> m.log]

\* a script constructs a Variant
Construct ==
    /\ pc \in {"ready", "script"}
    /\ \E variant \in CheckVariants :
         LET r == Variant_init(Machine, variant)
         IN  /\ LeavesStore(r.m)
             /\ pc' = "script"
             /\ held' = IF r.m.raised THEN held ELSE Some(variant)
             /\ UNCHANGED <<extensions, setting, emitCount>>
             /\ last' = [op |-> "construct", variant |-> variant,
                         raised |-> r.m.raised, result |-> r.result,
                         steps |-> r.m.steps]

\* the script runs the checks on the Variant it constructed
RunAll ==
    /\ pc = "script"
    /\ ~IsNone(held)
    /\ LET r == run_all(Machine, Val(held))
       IN  /\ LeavesStore(r.m)
           /\ UNCHANGED <<pc, extensions, setting, emitCount, held>>
           /\ last' = [op |-> "run_all", variant |-> Val(held),
                       raised |-> r.m.raised, result |-> r.result,
                       steps |-> r.m.steps, errors |-> r.m.errors]

NextProcess == ImportLibrary \/ ParseCli \/ Generate \/ Construct \/ RunAll

SpecProcess == InitProcess /\ [][NextProcess]_vars

(***************************************************************************)
(* Selectors and the string-list column.  A Python string is a sequence of *)
(* one-character strings.                                                  *)
(***************************************************************************)
Uppercase ==
    <<"A", "B", "C", "D", "E", "F", "G", "H", "I", "J", "K", "L", "M",
      "N", "O", "P", "Q", "R", "S", "T", "U", "V", "W", "X", "Y", "Z">>

Lowercase ==
    <<"a", "b", "c", "d", "e", "f", "g", "h", "i", "j", "k", "l", "m",
      "n", "o", "p", "q", "r", "s", "t", "u", "v", "w", "x", "y", "z">>

\* str.lower()
lower(s) ==
    [i \in 1..Len(s) |->
        IF \E k \in DOMAIN Uppercase : Uppercase[k] = s[i]
        THEN Lowercase[CHOOSE k \in DOMAIN Uppercase : Uppercase[k] = s[i]]
        ELSE s[i]]

\* str.startswith(p)
startswith(s, p) == Len(p) <= Len(s) /\ SubSeq(s, 1, Len(p)) = p

\* str.endswith(p)
endswith(s, p) == Len(p) <= Len(s) /\ SubSeq(s, Len(s) - Len(p) + 1, Len(s)) = p

\* str.find(p), counted from 1; 0 when p does not occur
find(s, p) ==
    LET at == {i \in 1..(Len(s) - Len(p) + 1) : SubSeq(s, i, i + Len(p) - 1) = p}
    IN  IF at = {} THEN 0 ELSE CHOOSE i \in at : \A j \in at : i <= j

\* p in s
contains(s, p) == find(s, p) # 0

\* str.replace(old, new): every occurrence, left to right
RECURSIVE replace(_, _, _)
replace(s, old, new) ==
    Let(find(s, old), LAMBDA i :
    IF i = 0 THEN s
    ELSE SubSeq(s, 1, i - 1) \o new
         \o replace(SubSeq(s, i + Len(old), Len(s)), old, new))

\* str.split(sep)
RECURSIVE split(_, _)
split(s, sep) ==
    Let(find(s, sep), LAMBDA i :
    IF i = 0 THEN <<s>>
    ELSE <<SubSeq(s, 1, i - 1)>> \o split(SubSeq(s, i + Len(sep), Len(s)), sep))

\* sep.join(list)
RECURSIVE join(_, _)
join(sep, list) ==
    IF list = <<>> THEN <<>>
    ELSE IF Len(list) = 1 THEN list[1]
    ELSE list[1] \o sep \o join(sep, Tail(list))

\* global_settings.db_text_delimiter
db_text_delimiter == <<"|", "|">>

\* StrListType.process_bind_param of an optional list; [None] and [""] are
\* the same sequence here and both give the empty string
process_bind_param(value) ==
    IF IsNone(value) THEN value
    ELSE IF Val(value) = <<None>> THEN Some(<<>>)
    ELSE Some(join(db_text_delimiter, Val(value)))

\* StrListType.process_result_value of an optional string
process_result_value(value) ==
    IF IsNone(value) THEN value
    ELSE Some(split(Val(value), db_text_delimiter))

\* the words of the selector language and of the rows
left_side == <<"s", "e", "l", "e", "c", "t", "o", "r", "(">>

right_side == <<")">>

space == <<" ">>

quote == <<"\"">>

s_Variant == <<"V", "a", "r", "i", "a", "n", "t">>

s_Blueprint == <<"B", "l", "u", "e", "p", "r", "i", "n", "t">>

s_local_admin == <<"l", "o", "c", "a", "l", "_", "a", "d", "m", "i", "n">>

\* VariantSelectorKey: the names of the members, in order
VariantSelectorKey ==
    << <<"I", "d">>, <<"T", "i", "d">>, <<"T", "a", "c", "t", "i", "c">>,
       <<"N", "a", "m", "e">>,
       <<"R", "e", "q", "u", "i", "r", "e", "s", "L", "a", "d", "m", "i", "n">> >>

\* BlueprintSelectorKey
BlueprintSelectorKey ==
    << <<"I", "d">>, <<"N", "a", "m", "e">>,
       <<"P", "r", "e", "f", "i", "x">> >>

\* the first of the members of an enumeration a test accepts, None without one
FirstMember(accepted) ==
    IF accepted = <<>> THEN None ELSE Some(Head(accepted))

\* SelectorKeyEnum._missing_: None stands for the KeyError
SelectorKeyEnum_missing(cls, value) ==
    FirstMember(SelectSeq(cls, LAMBDA member :
        lower(member) = replace(lower(value), <<"_">>, <<>>)))

\* CaseInsensitiveEnum._missing_ on SelectorType
SelectorType(value) ==
    FirstMember(SelectSeq(<<s_Variant, s_Blueprint>>, LAMBDA member :
        lower(member) = lower(value)))

\* SelectorType.key_type
key_type(selector_type) ==
    IF selector_type = s_Blueprint THEN BlueprintSelectorKey
    ELSE VariantSelectorKey

\* VariantSelectorKey.is_special / BlueprintSelectorKey.is_special
is_special(selector_type, key) ==
    selector_type = s_Variant /\ key = VariantSelectorKey[5]

\* the mapped columns the keys name, by the characters of their names
Columns ==
    [id |-> <<"i", "d">>, tid |-> <<"t", "i", "d">>,
     tactic |-> <<"t", "a", "c", "t", "i", "c">>,
     name |-> <<"n", "a", "m", "e">>,
     prefix |-> <<"p", "r", "e", "f", "i", "x">>]

\* getattr(table, key.name.lower())
column(key) == CHOOSE f \in DOMAIN Columns : Columns[f] = lower(key)

\* shlex.split(s): words are separated by spaces, a quoted part keeps its
\* spaces and loses its quotes, an unclosed quote is a ValueError.  cur is
\* the word in progress, in_quote the open quote character; the strings of
\* the model hold no backslash.
RECURSIVE shlex_read(_, _, _, _, _)
shlex_read(s, i, tokens, cur, in_quote) ==
    IF i > Len(s)
    THEN IF ~IsNone(in_quote) THEN [raised |-> TRUE, tokens |-> tokens]
         ELSE [raised |-> FALSE,
               tokens |-> IF IsNone(cur) THEN tokens
                          ELSE Append(tokens, Val(cur))]
    ELSE Let(s[i], LAMBDA c :
         IF ~IsNone(in_quote)
         THEN IF c = Val(in_quote)
              THEN shlex_read(s, i + 1, tokens, cur, None)
              ELSE shlex_read(s, i + 1, tokens, Some(Val(cur) \o <<c>>), in_quote)
         ELSE IF c = " "
         THEN IF IsNone(cur) THEN shlex_read(s, i + 1, tokens, cur, None)
              ELSE shlex_read(s, i + 1, Append(tokens, Val(cur)), None, None)
         ELSE IF c \in {"\"", "'"}
         THEN shlex_read(s, i + 1, tokens,
                         IF IsNone(cur) THEN Some(<<>>) ELSE cur, Some(c))
         ELSE shlex_read(s, i + 1, tokens,
                         Some((IF IsNone(cur) THEN <<>> ELSE Val(cur)) \o <<c>>),
                         None))

shlex_split(s) == shlex_read(s, 1, <<>>, None, None)

\* the exceptions of from_str
SelectorError(kind) == [raised |-> TRUE, error |-> kind]

\* one pass of from_str's loop: a token becomes a SelectorFilter
SelectorFilter(selector_type, token) ==
    LET parts == IF contains(token, <<"=", "=">>) THEN split(token, <<"=", "=">>)
                 ELSE IF contains(token, <<"~", "=">>) THEN split(token, <<"~", "=">>)
                 ELSE <<token>>
        key == SelectorKeyEnum_missing(key_type(selector_type), parts[1])
    IN  IF Len(parts) > 2 THEN SelectorError("ValueError")
        ELSE IF IsNone(key) THEN SelectorError("KeyError")
        ELSE [raised |-> FALSE,
              filter |-> [key |-> Val(key),
                          value |-> IF Len(parts) = 2 THEN Some(parts[2]) ELSE None,
                          approximate |-> ~contains(token, <<"=", "=">>)
                                          /\ contains(token, <<"~", "=">>)]]

\* the loop of from_str over the tokens
RECURSIVE FilterLoop(_, _, _, _)
FilterLoop(selector_type, tokens, i, filters) ==
    IF i > Len(tokens)
    THEN [raised |-> FALSE, type |-> selector_type, filters |-> filters]
    ELSE Let(SelectorFilter(selector_type, tokens[i]), LAMBDA f :
         IF f.raised THEN f
         ELSE FilterLoop(selector_type, tokens, i + 1, Append(filters, f.filter)))

\* Selector.from_str
from_str(v) ==
    IF ~(startswith(v, left_side) /\ endswith(v, right_side))
    THEN SelectorError("ValueError")
    ELSE Let(replace(replace(v, left_side, <<>>), right_side, <<>>), LAMBDA v1 :
         Let(split(v1, space)[1], LAMBDA selector_type_str :
         Let(SelectorType(selector_type_str), LAMBDA selector_type :
         IF IsNone(selector_type) THEN SelectorError("KeyError")
         ELSE Let(shlex_split(replace(v1, selector_type_str \o space, <<>>)),
              LAMBDA tokens :
              IF tokens.raised THEN SelectorError("ValueError")
              ELSE FilterLoop(Val(selector_type), tokens.tokens, 1, <<>>)))))

\* SQL's LIKE: % stands for any run of characters, _ for any one character
RECURSIVE like(_, _)
like(s, pattern) ==
    IF pattern = <<>> THEN s = <<>>
    ELSE IF Head(pattern) = "%"
    THEN \E k \in 0..Len(s) : like(SubSeq(s, k + 1, Len(s)), Tail(pattern))
    ELSE /\ s # <<>>
         /\ Head(pattern) = "_" \/ Head(pattern) = Head(s)
         /\ like(Tail(s), Tail(pattern))

\* column.ilike(pattern): lower(column) LIKE lower(pattern)
ilike(s, pattern) == like(lower(s), lower(pattern))

\* SelectorFilter._special_key_to_filter: the rows of the query it keeps
special_key_to_filter(rows) ==
    {row \in rows :
        /\ ~IsNone(row.prerequisites)
        /\ ilike(Val(row.prerequisites),
                 Val(process_bind_param(Some(<<s_local_admin>>))))}

\* SelectorFilter.apply_to_query: the rows of the query the filter keeps; a
\* bare key of a column compares the column with NULL, which no row holds
apply_to_query(selector_type, f, rows) ==
    IF is_special(selector_type, f.key) THEN special_key_to_filter(rows)
    ELSE IF IsNone(f.value) THEN {}
    ELSE IF ~f.approximate
    THEN {row \in rows : row[column(f.key)] = Val(f.value)}
    ELSE {row \in rows :
            ilike(row[column(f.key)], <<"%">> \o Val(f.value) \o <<"%">>)}

RECURSIVE QueryLoop(_, _, _, _)
QueryLoop(selector_type, filters, i, rows) ==
    IF i > Len(filters) THEN rows
    ELSE QueryLoop(selector_type, filters, i + 1,
                   apply_to_query(selector_type, filters[i], rows))

\* Selector.get_matches over the rows of the selector's table
get_matches(selector, table) ==
    QueryLoop(selector.type, selector.filters, 1, table)

\* the values of the rows and of the predicates
s_T1 == <<"T", "1">>

s_T2 == <<"T", "2">>

s_foobar == <<"f", "o", "o", "b", "a", "r">>

s_bar == <<"b", "a", "r">>

s_abc == <<"a", "b", "c">>

s_a == <<"a">>

s_x == <<"x">>

\* a stored Variant as the selectors see it; prerequisites is the column
\* value StrListType wrote for the list
SelectorRow(id, tid, name, prerequisites) ==
    [id |-> <<id>>, tid |-> tid, tactic |-> <<"T", "A", "1">>, name |-> name,
     prerequisites |-> process_bind_param(Some(prerequisites))]

SelectorRows ==
    {SelectorRow("1", s_T1, s_foobar, <<s_local_admin>>),
     SelectorRow("2", s_T1, s_bar, <<s_local_admin, s_x>>),
     SelectorRow("3", s_T2, s_abc, <<s_x, s_local_admin>>),
     SelectorRow("4", s_T2, s_a, <<>>)}

\* a predicate as it is written: key, operator ("==", "~=" or "" for a bare
\* key), value, and whether the value stands between double quotes
Pred(key, op, value, quoted) ==
    [key |-> key, op |-> op, value |-> value, quoted |-> quoted]

\* the text of a predicate
PredText(p) ==
    p.key
    \o (IF p.op = "==" THEN <<"=", "=">>
        ELSE IF p.op = "~=" THEN <<"~", "=">> ELSE <<>>)
    \o (IF p.op = "" THEN <<>>
        ELSE IF p.quoted THEN quote \o p.value \o quote ELSE p.value)

RECURSIVE PredsText(_)
PredsText(preds) ==
    IF preds = <<>> THEN <<>>
    ELSE space \o PredText(Head(preds)) \o PredsText(Tail(preds))

\* the selector string selector(<Type> p1 ... pn)
SelectorText(type, preds) == left_side \o type \o PredsText(preds) \o right_side

s_name == <<"n", "a", "m", "e">>

s_tid == <<"t", "i", "d">>

\* the selectors the model parses and evaluates
SelectorInputs ==
    {[type |-> s_Variant, preds |-> preds] : preds \in
        {<<Pred(s_tid, "==", s_T1, FALSE),
           Pred(s_name, "~=", <<"f", "o", "o">>, FALSE)>>,
         <<Pred(s_name, "==", s_bar, FALSE)>>,
         <<Pred(s_name, "~=", <<"B", "A">>, FALSE)>>,
         <<Pred(s_name, "~=", <<"z">>, FALSE)>>,
         <<Pred(s_name, "~=", <<"a", "_", "c">>, FALSE)>>,
         <<Pred(<<"R", "e", "q", "u", "i", "r", "e", "s", "L", "a", "d", "m",
                  "i", "n">>, "", <<>>, FALSE)>>,
         <<Pred(<<"r", "e", "q", "u", "i", "r", "e", "s", "_", "l", "a", "d",
                  "m", "i", "n">>, "", <<>>, FALSE),
           Pred(s_tid, "==", s_T1, FALSE)>>,
         <<Pred(s_name, "==", <<"a", " ", "b">>, TRUE)>>,
         <<Pred(s_name, "==", <<"a", ")">>, TRUE)>>,
         <<Pred(s_name, "==", left_side \o s_a, TRUE)>>,
         <<Pred(s_name, "==", s_Variant \o space \o s_a, TRUE)>>,
         <<Pred(s_name, "==", <<"a", "=", "=", "b">>, FALSE)>>,
         <<Pred(<<"s", "i", "z", "e">>, "==", s_a, FALSE)>>}}
    \cup {[type |-> type, preds |-> <<Pred(s_name, "==", s_bar, FALSE)>>] :
            type \in {lower(s_Variant), s_Blueprint, <<"T", "h", "i", "n", "g">>}}

\* the lists the string-list column is given
StrLists ==
    {<<>>, <<s_a>>, <<s_a, s_x>>, <<<<>>>>, <<s_local_admin>>,
     <<s_local_admin, s_x>>, <<<<"a", "|">>, s_x>>}

\* the start of the selector runs: experimental features are on, no hook is
\* loaded, and the store is empty
InitSelector ==
    /\ enabled = FALSE
    /\ add_groups = FALSE
    /\ hookMode = AllOk
    /\ hookSeen = [h \in Hooks |-> {}]
    /\ sessionFailed = FALSE
    /\ variants = {}
    /\ blueprints = <<>>
    /\ groups = <<>>
    /\ campaigns = <<>>
    /\ campVariants = <<>>
    /\ overrides = {}
    /\ vgroups = [id \in VariantIds |-> <<>>]
    /\ loadedSeen = <<>>
    /\ last = [op |-> "init"]
    /\ pc = "ready"
    /\ run_checks = TRUE
    /\ units = [h \in Hooks |-> "hook"]
    /\ extensions = <<>>
    /\ environ = [h \in Hooks |-> None]
    /\ setting = [h \in Hooks |-> None]
    /\ emitCount = [kind \in {"Init", "DbReady"} |-> 0]
    /\ held = None
    /\ firstParty = <<>>
    /\ tables = <<>>
    /\ written = {}

\* a Variant is added and committed: its list goes through the column type
AddVariant ==
    /\ \E row \in SelectorRows \ variants :
         /\ variants' = variants \cup {row}
         /\ last' = [op |-> "add", row |-> row]
    /\ UNCHANGED <<enabled, add_groups, hookMode, hookSeen, sessionFailed,
                   blueprints, groups, campaigns, campVariants, overrides,
                   vgroups, loadedSeen, pc, run_checks, units, extensions,
                   environ, setting, emitCount, held, firstParty, tables,
                   written>>

\* Selector.from_str(text).get_matches(); the Blueprint table is empty
Select ==
    /\ \E input \in SelectorInputs :
         LET text == SelectorText(input.type, input.preds)
             selector == from_str(text)
             table == IF selector.type = s_Variant THEN variants ELSE {}
         IN  last' = [op |-> "select", input |-> input, text |-> text,
                      raised |-> selector.raised,
                      filters |-> IF selector.raised THEN <<>>
                                  ELSE selector.filters,
                      result |-> IF selector.raised THEN {}
                                 ELSE get_matches(selector, table)]
    /\ UNCHANGED <<enabled, add_groups, hookMode, hookSeen, sessionFailed,
                   variants, blueprints, groups, campaigns, campVariants,
                   overrides, vgroups, loadedSeen, pc, run_checks, units,
                   extensions, environ, setting, emitCount, held, firstParty, tables,
                   written>>

\* a list is written to a string-list column and read back
RoundTrip ==
    /\ \E value \in StrLists :
         LET bound == process_bind_param(Some(value))
         IN  last' = [op |-> "round_trip", value |-> value, bound |-> bound,
                      result |-> process_result_value(bound)]
    /\ UNCHANGED <<enabled, add_groups, hookMode, hookSeen, sessionFailed,
                   variants, blueprints, groups, campaigns, campVariants,
                   overrides, vgroups, loadedSeen, pc, run_checks, units,
                   extensions, environ, setting, emitCount, held, firstParty, tables,
                   written>>

NextSelector == AddVariant \/ Select \/ RoundTrip

SpecSelector == InitSelector /\ [][NextSelector]_vars

(***************************************************************************)
(* The shipped extensions graphviz, guidance and partials.  A world is     *)
(* what their handlers and listeners read and write: the hook objects fp,  *)
(* the Variant rows, the guidance tables, the files written, the hooks     *)
(* that logged the warning, and whether an exception is on its way out.    *)
(***************************************************************************)
World ==
    [fp |-> firstParty, variants |-> variants, tables |-> tables,
     written |-> written, warned |-> <<>>, raised |-> FALSE]

\* value in ["", None]
MissingValue(value) == IsNone(value) \/ Val(value) = ""

\* logger.warn(f'Extension "{self.name}" disabled due to missing values')
Disable(w, name) ==
    [w EXCEPT !.fp[name].enabled = FALSE, !.warned = Append(@, name)]

\* the hook objects the three modules construct at import, with the values
\* the settings get
NewHooks(svg_path, file, sources, opnotebook) ==
    [graphviz |-> [enabled |-> FALSE, svg_path |-> svg_path, graph |-> None],
     guidance |-> [enabled |-> FALSE, paths |-> sources, mapping |-> sources,
                   opnotebook |-> opnotebook, first_loaded |-> FALSE,
                   link_populated |-> FALSE, is_cli |-> FALSE, notebook |-> {}],
     partials |-> [enabled |-> TRUE, file |-> file, partials |-> <<>>]]

\* GraphvizHook.do_start
GraphvizHook_do_start(w) ==
    IF MissingValue(w.fp.graphviz.svg_path) THEN Disable(w, "graphviz")
    ELSE [w EXCEPT !.fp.graphviz.enabled = TRUE]

\* GraphvizHook.do_exit: without a graph, graph.format = "svg" is an
\* AttributeError
GraphvizHook_do_exit(w) ==
    IF IsNone(w.fp.graphviz.graph) THEN [w EXCEPT !.raised = TRUE]
    ELSE [w EXCEPT !.written = @ \cup {Val(w.fp.graphviz.svg_path)}]

\* GraphvizHook.do_load
GraphvizHook_do_load(w, blueprint) ==
    [w EXCEPT !.fp.graphviz.graph = Some(blueprint.id)]

\* GraphvizHook.hook
GraphvizHook_hook(w, event_type, context) ==
    Let(IF event_type = "CliStart" THEN GraphvizHook_do_start(w) ELSE w,
        LAMBDA w1 :
          IF ~w1.fp.graphviz.enabled THEN w1
          ELSE IF event_type = "CliExit" THEN GraphvizHook_do_exit(w1)
          ELSE IF event_type = "BlueprintLoaded"
          THEN GraphvizHook_do_load(w1, context)
          ELSE w1)

\* the prefix of a partial
prefix == <<"p", "a", "r", "t", "i", "a", "l", ":", ":">>

\* the mapping the partials file holds: {k: K}
PartialsFile == [key \in {<<"k">>} |-> <<"K">>]

\* PartialsHook.do_start
PartialsHook_do_start(w) ==
    IF MissingValue(w.fp.partials.file) THEN Disable(w, "partials")
    ELSE [w EXCEPT !.fp.partials.partials = PartialsFile]

\* PartialsHook.hook
PartialsHook_hook(w, event_type, context) ==
    IF event_type = "DbReady" THEN PartialsHook_do_start(w) ELSE w

\* utils.deep_get of a mapping of strings, wrapped in Some; None when the
\* path leads nowhere
RECURSIVE deep_get(_, _)
deep_get(d, keys) ==
    IF keys = <<>> \/ IsNone(d) THEN d
    ELSE deep_get(IF Head(keys) \in DOMAIN Val(d) THEN Some(Val(d)[Head(keys)])
                  ELSE None,
                  Tail(keys))

\* PartialsHook.resolve_list_of_partials
RECURSIVE resolve_list_of_partials(_, _)
resolve_list_of_partials(partials, inputs) ==
    IF inputs = <<>> THEN <<>>
    ELSE Let(split(Head(inputs), prefix), LAMBDA parts :
         Let(IF Len(parts) > 1
             THEN deep_get(Some(partials), split(parts[Len(parts)], <<".">>))
             ELSE Some(Head(inputs)),
             LAMBDA resolved :
               (IF IsNone(resolved) THEN <<>> ELSE <<Val(resolved)>>)
               \o resolve_list_of_partials(partials, Tail(inputs))))

\* utils.strip_strlist
strip_strlist(strlist) == SelectSeq(strlist, LAMBDA item : item # <<>>)

\* partials.resolve_event_value: the listener of Variant's before_insert and
\* before_update
resolve_event_value(w, target) ==
    Let(IF target.detect # <<>> /\ Len(strip_strlist(target.detect)) > 0
        THEN [target EXCEPT !.detect =
                resolve_list_of_partials(w.fp.partials.partials, @)]
        ELSE target,
        LAMBDA t1 :
          IF t1.block # <<>> /\ Len(strip_strlist(t1.block)) > 0
          THEN [t1 EXCEPT !.block =
                  resolve_list_of_partials(w.fp.partials.partials, @)]
          ELSE t1)

\* what the guidance paths and the mapping file hold: one document, mapped
\* to the Variant u1 and to the Blueprint 1
GuidanceDocuments == {"doc1"}

MappingFile == {[target_id |-> "u1", guidance_id |-> "doc1"],
                [target_id |-> "b1", guidance_id |-> "doc1"]}

\* GuidanceHook.do_first_load
do_first_load(w) ==
    IF w.fp.guidance.first_loaded THEN w
    ELSE [w EXCEPT !.tables.documents = @ \cup GuidanceDocuments,
                   !.tables.mappings = @ \cup
                       {[target_id |-> row.target_id, target_type |-> None,
                         guidance_id |-> row.guidance_id] : row \in MappingFile},
                   !.fp.guidance.first_loaded = TRUE]

\* GuidanceHook.do_start
GuidanceHook_do_start(w, required_settings) ==
    IF \E name \in required_settings : MissingValue(w.fp.guidance[name])
    THEN Disable(w, "guidance")
    ELSE do_first_load([w EXCEPT !.fp.guidance.enabled = TRUE])

\* GuidanceHook.do_exit
GuidanceHook_do_exit(w) ==
    [w EXCEPT !.written = @ \cup {Val(w.fp.guidance.opnotebook)}]

\* GuidanceMapping.update_target_ids
update_target_ids(w, blueprint_ids) ==
    [w EXCEPT !.tables.mappings =
        {[row EXCEPT !.target_type =
            IF row.target_id \in blueprint_ids THEN Some("Blueprint")
            ELSE IF row.target_id \in {v.id : v \in w.variants}
            THEN Some("Variant")
            ELSE @] : row \in @}]

\* GuidanceMapping.populate_linked_data
populate_linked_data(w) ==
    [w EXCEPT !.tables.linked = @ \cup
        {[target_id |-> row.target_id, target_type |-> Val(row.target_type),
          data |-> row.guidance_id, origin |-> "guidance"] :
            row \in {r \in w.tables.mappings :
                        /\ ~IsNone(r.target_type)
                        /\ r.guidance_id \in w.tables.documents}}]

\* GuidanceHook.do_ld_load
do_ld_load(w, blueprint_ids) ==
    Let(update_target_ids(w, blueprint_ids), LAMBDA w1 :
        IF w1.fp.guidance.link_populated THEN w1
        ELSE [populate_linked_data(w1) EXCEPT
                !.fp.guidance.link_populated = TRUE])

\* GuidanceMapping.get_documents_for_object
get_documents_for_object(w, id, o_type) ==
    {row.guidance_id : row \in {r \in w.tables.mappings :
        r.target_id = id /\ r.target_type = Some(o_type)}}

\* GuidanceHook.do_bp_load
do_bp_load(w, blueprint) ==
    [w EXCEPT !.fp.guidance.notebook =
        get_documents_for_object(w, blueprint.id, "Blueprint")
        \cup UNION {get_documents_for_object(w, id, "Variant") :
                        id \in blueprint.variants}]

\* GuidanceHook.hook; context holds the ids of the stored Blueprints for
\* LinkTableReady and the Blueprint for BlueprintLoaded
GuidanceHook_hook(w, event_type, context) ==
    Let(IF event_type = "CliStart"
        THEN [GuidanceHook_do_start(w, {"mapping", "paths", "opnotebook"})
                EXCEPT !.fp.guidance.is_cli = TRUE]
        ELSE IF event_type = "DbReady"
        THEN GuidanceHook_do_start(w, {"mapping", "paths"})
        ELSE w,
        LAMBDA w1 :
          IF ~w1.fp.guidance.enabled THEN w1
          ELSE IF event_type = "LinkTableReady" THEN do_ld_load(w1, context)
          ELSE IF event_type = "CliExit" THEN GuidanceHook_do_exit(w1)
          ELSE IF event_type = "BlueprintLoaded" /\ w1.fp.guidance.is_cli
          THEN do_bp_load(w1, context)
          ELSE w1)

\* guidance.recv_variant_before_insert / recv_blueprint_before_insert
guidance_before_insert(w, id, target_type) ==
    [w EXCEPT !.tables.mappings =
        {IF row.target_id = id THEN [row EXCEPT !.target_type = Some(target_type)]
         ELSE row : row \in @}]

\* emit_event with the three extensions loaded: the handlers run in the
\* order of the list, and an exception out of one ends the emission
FirstParty_emit(w, event_type, context) ==
    Let(GraphvizHook_hook(w, event_type, context), LAMBDA w1 :
        IF w1.raised THEN w1
        ELSE PartialsHook_hook(GuidanceHook_hook(w1, event_type, context),
                               event_type, context))

\* session.add(variant); session.commit(): the before_insert listeners run
\* on the row, and the row goes into the table
insert_variant(w, row) ==
    Let(guidance_before_insert(w, row.id, "Variant"), LAMBDA w1 :
        [w1 EXCEPT !.variants = @ \cup {resolve_event_value(w1, row)}])

\* the Variants added while the extensions are loaded: detect and block
\* name the partial k, which the file resolves, and the partial z, which
\* it does not
PartialRows ==
    {[id |-> "u1", tid |-> "T1",
      detect |-> <<prefix \o <<"k">>, <<"d">>>>, block |-> <<>>],
     [id |-> "u2", tid |-> "T1",
      detect |-> <<prefix \o <<"z">>>>, block |-> <<prefix \o <<"k">>>>]}

\* the values a setting of the three extensions may have been given
SettingValues == {None, Some(""), Some("f")}

\* the process starts with the three extensions in the extensions
\* directory; pc = "import" is the moment before the library is imported
InitFirstParty ==
    /\ enabled = TRUE
    /\ add_groups = FALSE
    /\ hookMode = AllOk
    /\ hookSeen = [h \in Hooks |-> {}]
    /\ sessionFailed = FALSE
    /\ variants = {}
    /\ blueprints = <<>>
    /\ groups = <<>>
    /\ campaigns = <<>>
    /\ campVariants = <<>>
    /\ overrides = {}
    /\ vgroups = [id \in VariantIds |-> <<>>]
    /\ loadedSeen = <<>>
    /\ last = [op |-> "init"]
    /\ pc = "import"
    /\ run_checks = TRUE
    /\ units = [h \in Hooks |-> "hook"]
    /\ extensions = <<>>
    /\ environ = [h \in Hooks |-> None]
    /\ setting = [h \in Hooks |-> None]
    /\ emitCount = [kind \in {"Init", "DbReady"} |-> 0]
    /\ held = None
    /\ \E svg_path \in SettingValues, file \in {None, Some("f")},
          sources \in {None, Some("f")}, opnotebook \in {None, Some("f")} :
         firstParty = NewHooks(svg_path, file, sources, opnotebook)
    /\ tables = [documents |-> {}, mappings |-> {}, linked |-> {}]
    /\ written = {}

\* what an operation leaves, from the world it ended on
LeavesWorld(w, op) ==
    /\ firstParty' = w.fp
    /\ variants' = w.variants
    /\ tables' = w.tables
    /\ written' = w.written
    /\ last' = op @@ [raised |-> w.raised, warned |-> w.warned,
                      before |-> World]
    /\ UNCHANGED <<enabled, add_groups, hookMode, hookSeen, sessionFailed,
                   groups, campaigns, campVariants, overrides, vgroups,
                   loadedSeen, run_checks, units, extensions, environ, setting,
                   emitCount, held>>

\* the library is imported: DbReady is emitted
FirstPartyImport ==
    /\ pc = "import"
    /\ LeavesWorld(FirstParty_emit(World, "DbReady", None),
                   [op |-> "emit", event |-> "DbReady"])
    /\ pc' = "ready"
    /\ UNCHANGED blueprints

\* mmcli emits CliStart
FirstPartyCliStart ==
    /\ pc = "ready"
    /\ LeavesWorld(FirstParty_emit(World, "CliStart", None),
                   [op |-> "emit", event |-> "CliStart"])
    /\ pc' = "started"
    /\ UNCHANGED blueprints

\* a Variant is added and committed
InsertVariant ==
    /\ pc \in {"ready", "started"}
    /\ \E row \in PartialRows :
         /\ \A v \in variants : v.id # row.id
         /\ LeavesWorld(insert_variant(World, row),
                        [op |-> "insert", row |-> row])
    /\ UNCHANGED <<pc, blueprints>>

\* a Blueprint of the stored Variants is added and its BlueprintLoaded
\* emitted
InsertBlueprint ==
    /\ pc \in {"ready", "started"}
    /\ blueprints = <<>>
    /\ LeavesWorld(FirstParty_emit(guidance_before_insert(World, "b1", "Blueprint"),
                                   "BlueprintLoaded",
                                   [id |-> "b1",
                                    variants |-> {v.id : v \in variants}]),
                   [op |-> "emit", event |-> "BlueprintLoaded"])
    /\ blueprints' = <<[loaded_flag |-> TRUE, emit_called |-> TRUE,
                        status |-> "returned"]>>
    /\ UNCHANGED pc

\* a script emits LinkTableReady after it loaded its data
LinkTableReady ==
    /\ pc \in {"ready", "started"}
    /\ ~(last.op = "emit" /\ last.event = "LinkTableReady")
    /\ LeavesWorld(FirstParty_emit(World, "LinkTableReady",
                                   IF blueprints = <<>> THEN {} ELSE {"b1"}),
                   [op |-> "emit", event |-> "LinkTableReady"])
    /\ UNCHANGED <<pc, blueprints>>

\* mmcli emits CliExit; an exception out of a handler ends the process
FirstPartyCliExit ==
    /\ pc = "started"
    /\ LET w == FirstParty_emit(World, "CliExit", None)
       IN  /\ LeavesWorld(w, [op |-> "emit", event |-> "CliExit"])
           /\ pc' = IF w.raised THEN "failed" ELSE "done"
    /\ UNCHANGED blueprints

NextFirstParty ==
    \/ FirstPartyImport
    \/ FirstPartyCliStart
    \/ InsertVariant
    \/ InsertBlueprint
    \/ LinkTableReady
    \/ FirstPartyCliExit

SpecFirstParty == InitFirstParty /\ [][NextFirstParty]_vars

(***************************************************************************)
(* index.py: the exports of a Blueprint, with the shipped hooks vectr and  *)
(* attackmigrate registered.  The library is ingested, Blueprints are      *)
(* loaded, and then Variants are rendered and Blueprints exported.         *)
(***************************************************************************)
\* what a registered hook is: one without a TestCaseRender handler, vectr,
\* attackmigrate
BuiltinModes == {"ok", "vectr", "attackmigrate"}

\* the Blueprints loaded in one run
MaxExportBlueprints == 2

\* a Variant of the technique attackmigrate maps to another
FileRevoked ==
    VariantFile(Some("u3"), "T1574.002", "r", 1, "Revoked", <<"g">>, <<>>, <<>>)

ExportLibrary == <<FileA1, FileRevoked>>

\* two campaigns enter T1 -> a, each with a dict block of its own
DocTwoCampaigns ==
    [groups |-> << <<"g1", "T1">> >>,
     campaigns |->
       <<[name |-> "c1", entries |->
            <<Entry("T1", "a", DictBlock(Some(<<"1">>), Some("N"), None, Some(<<"r2">>)))>>],
         [name |-> "c2", entries |->
            <<Entry("T1", "a", DictBlock(Some(<<"1">>), Some("M"), Some(<<"og2">>), None)),
              Entry("T1574.002", "r", IntBlock(<<"1">>))>>]>>]

\* another Blueprint's document: it groups T1 under a name of its own
DocOtherGroup ==
    [groups |-> << <<"gB", "T1">> >>,
     campaigns |->
       <<[name |-> "cB", entries |-> <<Entry("T1", "a", IntBlock(<<"1">>))>>]>>]

\* a document with no groups and no dict block
DocPlain ==
    [groups |-> <<>>,
     campaigns |->
       <<[name |-> "c1", entries |->
            <<Entry("T1", "a", IntBlock(<<"1">>)),
              Entry("T1574.002", "r", IntBlock(<<"1">>))>>]>>]

ExportDocs == {DocTwoCampaigns, DocOtherGroup, DocPlain}

\* BlueprintExport: the exports of index.py
BlueprintExport == {"manifest", "summary", "sublibrary", "navigator"}

\* gen_blueprint_export: manifest, summary and sub-library render every
\* Variant of every child campaign; the Navigator layer reads the tids
gen_blueprint_export(m, b, export_type, pick) ==
    IF export_type = "navigator" THEN m
    ELSE gen_manifest_from_campaigns(m, b, 1, pick)

InitExport ==
    /\ enabled = TRUE
    /\ add_groups \in BOOLEAN
    /\ hookMode \in [Hooks -> BuiltinModes]
    /\ hookSeen = [h \in Hooks |-> {}]
    /\ sessionFailed = FALSE
    /\ variants = {}
    /\ blueprints = <<>>
    /\ groups = <<>>
    /\ campaigns = <<>>
    /\ campVariants = <<>>
    /\ overrides = {}
    /\ vgroups = [id \in VariantIds |-> <<>>]
    /\ loadedSeen = <<>>
    /\ last = [op |-> "init"]
    /\ pc = "ready"
    /\ run_checks = TRUE
    /\ units = [h \in Hooks |-> "hook"]
    /\ extensions = [h \in Hooks |-> h]
    /\ environ = [h \in Hooks |-> None]
    /\ setting = [h \in Hooks |-> None]
    /\ emitCount = [kind \in {"Init", "DbReady"} |-> 1]
    /\ held = None
    /\ firstParty = <<>>
    /\ tables = <<>>
    /\ written = {}

\* the rows of the store
Rows ==
    [variants |-> variants, blueprints |-> DOMAIN blueprints, groups |-> groups,
     campaigns |-> campaigns, campVariants |-> campVariants,
     overrides |-> overrides, vgroups |-> vgroups]

\* init_db(variants_paths)
ExportIngest ==
    /\ variants = {}
    /\ LET m == ingest_variants_from_library(Machine, ExportLibrary)
       IN  /\ Leaves(m)
           /\ last' = [op |-> "ingest", raised |-> m.raised, log |-> m.log]

\* Blueprint.from_yaml(document), after init_db
ExportLoad ==
    /\ variants # {}
    /\ Cardinality(DOMAIN blueprints) < MaxExportBlueprints
    /\ \E doc \in ExportDocs :
         LET b == Cardinality(DOMAIN blueprints) + 1
             m == Blueprint_from_yaml(Machine, doc, b)
         IN  /\ Leaves(m)
             /\ last' = [op |-> "from_yaml", doc |-> doc, blueprint |-> b,
                         raised |-> m.raised, log |-> m.log, before |-> Rows]

\* gen_blueprint_export(blueprint, export_type)
GenExport ==
    \E b \in DOMAIN blueprints, export_type \in BlueprintExport :
      \E pick \in Picks(Machine, b) :
        LET m == gen_blueprint_export(Machine, b, export_type, pick)
        IN  /\ Leaves(m)
            /\ last' = [op |-> "export", export_type |-> export_type,
                        blueprint |-> b, raised |-> m.raised,
                        manifest |-> m.manifest, log |-> m.log]

NextExport == ExportIngest \/ ExportLoad \/ Render \/ GenExport

SpecExport == InitExport /\ [][NextExport]_vars

(***************************************************************************)
(* The properties.                                                         *)
(***************************************************************************)
\* the deliveries of an event kind to hook h in a log
Deliveries(log, h, kind) ==
    Cardinality({i \in 1..Len(log) : log[i].hook = h /\ log[i].kind = kind})

\* the last operation was a render that reached its emit_event call
RenderEmitted ==
    /\ last.op = "render"
    /\ ~(last.apply_overrides /\ ~IsNone(last.blueprint_id) /\ sessionFailed)

\* C1: one emit_event call hands the event to every loaded hook exactly
\* once, also when an earlier hook's handler raises, and emit_event does not
\* raise.  Stated of the emit_event(TestCaseRender) call of render.
C1_EmitReachesEveryHook ==
    (enabled /\ RenderEmitted) =>
        /\ ~last.raised
        /\ \A h \in Hooks : Deliveries(last.log, h, "TestCaseRender") = 1

\* the (tid, name, version) triples looked up
LookupTids == {"T1", "T2"}
LookupNames == {"a", "b"}
LookupVersions == {1, 2, 3}

\* C2: for every stored Variant v, lookup_variant(v.tid, v.name, v.version)
\* returns exactly v, and a lookup of a triple no stored Variant has fails.
C2_LookupReturnsStored ==
    /\ \A v \in variants :
         LET r == lookup_variant(Machine, v.tid, v.name, Some(str(v.version)))
         IN  ~r.m.raised /\ r.result = Some(v)
    /\ \A tid \in LookupTids, name \in LookupNames, n \in LookupVersions :
         (~\E v \in variants : v.tid = tid /\ v.name = name /\ v.version = n)
           => lookup_variant(Machine, tid, name, Some(str(n))).m.raised

SameTriple(v, w) == v.tid = w.tid /\ v.name = w.name /\ v.version = w.version

\* C3: no two stored Variants share (tid, name, version): a file whose
\* triple a stored Variant with another id already has is not stored.
C3_TripleUnique ==
    /\ \A v, w \in variants : SameTriple(v, w) => v = w
    /\ last.op = "ingest" =>
         \A i \in 1..Len(last.lib) :
           (/\ ~IsNone(last.lib[i].id)
            /\ \E w \in last.before :
                 SameTriple(w, last.lib[i]) /\ w.id # Val(last.lib[i].id))
             => VariantOf(last.lib[i]) \notin variants

\* C4: once emit_loaded has been called on a Blueprint, each hook has been
\* handed BlueprintLoaded for it exactly once, whatever the number of calls
\* and also when a handler calls emit_loaded again.
C4_LoadedExactlyOnce ==
    enabled =>
      \A b \in DOMAIN blueprints :
        blueprints[b].emit_called => \A h \in Hooks : loadedSeen[b][h] = 1

\* the Overrides the last render's query matches
RenderOverrides ==
    IF last.apply_overrides /\ ~IsNone(last.blueprint_id)
    THEN {o \in overrides : o.variant_id = last.variant.id
                            /\ o.blueprint_id = Val(last.blueprint_id)}
    ELSE {}

\* the references of a rendered dictionary: the key is absent when empty
RenderedRefs(d) ==
    IF IsNone(d.metadata.x_references) THEN <<>> ELSE Val(d.metadata.x_references)

\* the last render returned the base Variant's fields
RenderIsBase ==
    LET v == last.variant
        d == Val(last.result)
    IN  d.name = v.display_name /\ d.guidance = v.guidance
        /\ RenderedRefs(d) = v.references

\* the last render returned the base Variant overlaid with the fields of o
\* that count as set
RenderIsOverlay(o, SetStr(_), SetList(_)) ==
    LET v == last.variant
        d == Val(last.result)
    IN  /\ d.name = IF SetStr(o.display_name) THEN Val(o.display_name)
                    ELSE v.display_name
        /\ d.guidance = IF SetList(o.guidance) THEN Val(o.guidance) ELSE v.guidance
        /\ RenderedRefs(d) = IF SetList(o.references) THEN Val(o.references)
                             ELSE v.references

IsSet(o) == ~IsNone(o)
NonEmptyStr(o) == ~IsNone(o) /\ Val(o) # ""
NonEmptyList(o) == ~IsNone(o) /\ Val(o) # <<>>

\* C5 as written: render returns the base name, references and guidance
\* unless apply_overrides is on, a blueprint_id is given and an Override
\* exists for (variant, blueprint_id); then every field set on the Override
\* replaces the base value and every unset field keeps it.
C5_SetOverrideFieldsReplace ==
    (last.op = "render" /\ ~last.raised) =>
        IF RenderOverrides = {} THEN RenderIsBase
        ELSE \E o \in RenderOverrides : RenderIsOverlay(o, IsSet, IsSet)

\* C5 amended: as C5, with "set" read as "set to a non-empty value": an
\* Override field that is unset or empty (an empty name, an empty list)
\* keeps the base value.
C5_NonEmptyOverrideFieldsReplace ==
    (last.op = "render" /\ ~last.raised) =>
        IF RenderOverrides = {} THEN RenderIsBase
        ELSE \E o \in RenderOverrides : RenderIsOverlay(o, NonEmptyStr, NonEmptyList)

\* a render with an Override whose guidance replaced the base guidance and
\* whose empty name left the base name
C5_Witness ==
    /\ last.op = "render" /\ ~last.raised
    /\ \E o \in RenderOverrides :
         /\ o.display_name = Some("")
         /\ NonEmptyList(o.guidance)
         /\ Val(o.guidance) # last.variant.guidance
         /\ Val(last.result).guidance = Val(o.guidance)
         /\ Val(last.result).name = last.variant.display_name

\* the last operation was a from_yaml that returned the Blueprint
Loaded == last.op = "from_yaml" /\ ~last.raised

\* the stored Variant lookup_variant resolves (tid, name, n) to, if any
Resolved(tid, name, n) ==
    {v \in variants :
        /\ v.tid = tid /\ v.name = name /\ v.version = n
        /\ \A w \in variants : SameTriple(v, w) => w = v}

\* the text t is the numeral of n, with blanks around it or none
Numeral(t, n) ==
    \E i, j \in 1..Len(t) :
        /\ i <= j
        /\ SubSeq(t, i, j) = str(n)
        /\ \A k \in 1..Len(t) : (k < i \/ k > j) => t[k] = " "

\* the stretches of t between semicolons, as pairs (first, last)
Segments(t) ==
    {s \in (1..(Len(t) + 1)) \X (0..Len(t)) :
        /\ s[1] <= s[2] + 1
        /\ (s[1] = 1 \/ t[s[1] - 1] = ";")
        /\ (s[2] = Len(t) \/ t[s[2] + 1] = ";")
        /\ \A k \in s[1]..s[2] : t[k] # ";"}

\* the versions a variant_block names: the integer, each member of the
\* semicolon list, or the dict's version
NamedVersions(block) ==
    {n \in LookupVersions :
        IF block.form = "dict"
        THEN ~IsNone(block.version) /\ Numeral(Val(block.version), n)
        ELSE \E s \in Segments(block.text) : Numeral(SubSeq(block.text, s[1], s[2]), n)}

\* the Variants the versions of entry e name and lookup_variant resolves
EntryVariants(e) == UNION {Resolved(e.tid, e.name, n) : n \in NamedVersions(e.block)}

\* the Overrides keyed (v, b, c)
OverridesOf(v, b, c) ==
    {o \in overrides : o.variant_id = v.id /\ o.blueprint_id = b /\ o.campaign_id = c}

\* C6: for an entry written as an override block whose Variant resolves,
\* from_yaml creates exactly one Override keyed (variant, blueprint,
\* campaign), with references, guidance and display_name equal to the
\* block's; an entry written as a bare version or a semicolon list creates
\* none.
C6_OverrideFromBlock ==
    Loaded =>
      \A ci \in 1..Len(last.doc.campaigns) :
        LET camp == last.doc.campaigns[ci]
            c == CampaignId(last.blueprint, camp.name)
        IN  \A ei \in 1..Len(camp.entries) :
              LET e == camp.entries[ei]
              IN  \A v \in EntryVariants(e) :
                    IF e.block.form = "dict"
                    THEN /\ Cardinality(OverridesOf(v, last.blueprint, c)) = 1
                         /\ \A o \in OverridesOf(v, last.blueprint, c) :
                              /\ o.references = e.block.references
                              /\ o.guidance = e.block.guidance
                              /\ o.display_name = e.block.name
                    ELSE OverridesOf(v, last.blueprint, c) = {}

\* the Variants attached to the Group row g
GroupVariants(g) ==
    {v \in variants : \E k \in 1..Len(vgroups[v.id]) : vgroups[v.id][k] = g.id}

\* the Variants attached to some Campaign of Blueprint b
BlueprintVariants(b) ==
    {v \in variants :
        \E ci \in 1..Len(campaigns) :
            /\ campaigns[ci].blueprint_id = b
            /\ \E k \in 1..Len(campVariants[campaigns[ci].id]) :
                 campVariants[campaigns[ci].id][k] = v.id}

\* C7: after from_yaml has returned Blueprint b, the Variants attached to
\* each Group g of b are the Variants attached to some Campaign of b whose
\* tid is g.tid, whatever the add_groups setting.
C7_GroupVariantsMatchCampaigns ==
    \A b \in DOMAIN blueprints :
      blueprints[b].status = "returned" =>
        \A gi \in 1..Len(groups) :
          groups[gi].blueprint_id = b =>
            GroupVariants(groups[gi])
              = {v \in BlueprintVariants(b) : v.tid = groups[gi].tid}

\* add_groups is off, and a loaded Blueprint has a Group with a Variant
\* attached and a Group with none
C7_Witness ==
    /\ ~add_groups
    /\ \E b \in DOMAIN blueprints :
         /\ blueprints[b].status = "returned"
         /\ \E gi, gj \in 1..Len(groups) :
              /\ groups[gi].blueprint_id = b /\ groups[gj].blueprint_id = b
              /\ GroupVariants(groups[gi]) # {}
              /\ GroupVariants(groups[gj]) = {}

\* the ids of the Variants the entries of campaign camp resolve to
NamedVariants(camp) ==
    {v.id : v \in UNION {EntryVariants(camp.entries[ei]) : ei \in 1..Len(camp.entries)}}

\* the ids of the Variants attached to the Campaign row c
CampaignVariants(c) == {campVariants[c][k] : k \in 1..Len(campVariants[c])}

\* C8: after from_yaml has returned, the Variants of each Campaign are
\* exactly those lookup_variant resolves for (tid, variant name, version)
\* over every version its entries name: one integer, each member of a
\* semicolon list, or the version of an override block.
C8_CampaignVariantsAreNamed ==
    Loaded =>
      \A ci \in 1..Len(last.doc.campaigns) :
        LET camp == last.doc.campaigns[ci]
        IN  CampaignVariants(CampaignId(last.blueprint, camp.name)) = NamedVariants(camp)

\* a Blueprint loaded whose semicolon list named two stored versions and one
\* that is not stored
C8_Witness ==
    /\ Loaded
    /\ \E ci \in 1..Len(last.doc.campaigns) :
         LET camp == last.doc.campaigns[ci]
         IN  /\ camp.entries[1].block.form = "str"
             /\ Cardinality(CampaignVariants(CampaignId(last.blueprint, camp.name))) = 2
    /\ Len(last.skipped) > 0

\* the entries of the last from_yaml whose lookup_variant call failed on the
\* number of matches: none, or more than one
FailedLookups ==
    {k \in 1..Len(last.skipped) :
        /\ ~sessionFailed
        /\ ~IsNone(last.skipped[k].version)
        /\ ~IsNone(int(Val(last.skipped[k].version)))}

\* C9: when lookup_variant fails for an entry of a Blueprint document (no
\* match, or more than one), the failure is logged, the entry makes no
\* Campaign link, no Override and no Group attachment, the other entries are
\* processed, and the load completes and emits BlueprintLoaded.
C9_FailedLookupSkipsEntry ==
    (last.op = "from_yaml" /\ FailedLookups # {}) =>
        /\ last.errors >= Cardinality(FailedLookups)
        /\ \A k \in FailedLookups :
             LET s == last.skipped[k]
             IN  \A v \in variants :
                   (v.tid = s.tid /\ v.name = s.name
                    /\ v.version = Val(int(Val(s.version))))
                     => /\ v.id \notin CampaignVariants(s.campaign)
                        /\ OverridesOf(v, last.blueprint, s.campaign) = {}
                        /\ \A gi \in 1..Len(groups) :
                             groups[gi].blueprint_id = last.blueprint
                               => v \notin GroupVariants(groups[gi])
        /\ \A ci \in 1..Len(last.doc.campaigns) :
             LET camp == last.doc.campaigns[ci]
             IN  /\ \E cj \in 1..Len(campaigns) :
                      campaigns[cj].id = CampaignId(last.blueprint, camp.name)
                 /\ CampaignVariants(CampaignId(last.blueprint, camp.name))
                      = NamedVariants(camp)
        /\ ~last.raised
        /\ blueprints[last.blueprint].status = "returned"
        /\ enabled => \A h \in Hooks : loadedSeen[last.blueprint][h] >= 1

\* file i of the library the last ingest visited can be stored: it declares
\* an id, which no stored Variant and no earlier file of the library has
WellFormed(i) ==
    /\ ~IsNone(last.lib[i].id)
    /\ \A w \in last.before : w.id # Val(last.lib[i].id)
    /\ \A j \in 1..(i - 1) : last.lib[j].id # last.lib[i].id

\* C10: ingest_variants_from_library visits every file also when some fail:
\* each well-formed file yields one stored Variant, each failing file none,
\* and the call raises, after the last file, exactly when a file failed.
C10_IngestToleratesFailures ==
    last.op = "ingest" =>
        /\ variants = last.before
                        \cup {VariantOf(last.lib[i]) :
                                i \in {j \in 1..Len(last.lib) : WellFormed(j)}}
        /\ last.raised <=> \E i \in 1..Len(last.lib) : ~WellFormed(i)

\* the units that are hooks, in the order of the directory
HookUnits == SelectSeq([h \in Hooks |-> h], LAMBDA h : units[h] = "hook")

\* C11: the import of a directory with a unit that fails to load (its
\* module raises, or it has no hook instance) skips that unit: the import
\* completes, every other unit is loaded, and each of them receives the
\* events emitted from then on.  Stated of the runs in which no hook's
\* handler raises.
C11_FailingUnitIsSkipped ==
    (last.op = "import" /\ enabled /\ hookMode = AllOk) =>
        /\ ~last.raised
        /\ extensions = HookUnits
        /\ \A i \in 1..Len(HookUnits) :
             /\ Deliveries(last.log, HookUnits[i], "Init") = 1
             /\ Deliveries(last.log, HookUnits[i], "DbReady") = 1

\* the Init deliveries of the import saw, for every hook whose variable
\* counts as set, the variable's value in the hook's setting; and the
\* command line, parsed later, replaced the value the environment gave
EnvThenCli(Set(_)) ==
    /\ last.op = "import" =>
         \A i \in 1..Len(last.log) :
            (last.log[i].kind = "Init" /\ Set(environ[last.log[i].hook])) =>
                last.log[i].setting = environ[last.log[i].hook]
    /\ last.op = "cli" =>
         \A i \in 1..Len(extensions) :
            /\ Set(environ[extensions[i]]) =>
                  last.before[extensions[i]] = environ[extensions[i]]
            /\ ~IsNone(last.cli[extensions[i]]) =>
                  setting[extensions[i]] = last.cli[extensions[i]]

\* C12 as written: a Setting whose environment variable is set has the
\* variable's value applied before Init is dispatched, and a command-line
\* value is applied later, so that it is the final value when both are given.
C12_EnvBeforeInitThenCli == EnvThenCli(IsSet)

\* C12 amended: as C12, for a Setting whose environment variable is set to
\* a non-empty value; a variable set to the empty string is not applied.
C12_NonEmptyEnvBeforeInitThenCli == EnvThenCli(NonEmptyStr)

\* the command line was parsed with a value for a setting whose variable
\* held another value, which the setting had before the parse
C12_Witness ==
    /\ last.op = "cli"
    /\ \E i \in 1..Len(extensions) :
         /\ environ[extensions[i]] = Some("e")
         /\ last.before[extensions[i]] = Some("e")
         /\ last.cli[extensions[i]] = Some("c")
         /\ setting[extensions[i]] = Some("c")

\* step i of steps is the emit_event call for kind
IsEmit(steps, i, kind) == steps[i].step = "emit" /\ steps[i].kind = kind

\* some step before step i of steps is the step named
Before(steps, i, step) == \E j \in 1..(i - 1) : steps[j].step = step

Store ==
    [groups |-> groups, campaigns |-> campaigns, campVariants |-> campVariants,
     overrides |-> overrides, vgroups |-> vgroups]

\* C14: at every BlueprintLoaded emission of a load, the Groups, Campaigns,
\* Campaign-Variant links, Overrides and Variant-Group attachments are the
\* ones the session last committed, and they are the ones there are when the
\* load is over: the load adds none after the event.
C14_LoadedAfterAllRowsCommitted ==
    last.op = "from_yaml" =>
        \A i \in 1..Len(last.loadedAt) :
           /\ last.loadedAt[i].blueprint = last.blueprint
           /\ last.loadedAt[i].committed = Some(last.loadedAt[i].store)
           /\ last.loadedAt[i].store = Store

\* a load that emitted BlueprintLoaded to a hook after it made a Group, a
\* Campaign with a linked Variant, an Override and a Group attachment
C14_Witness ==
    /\ last.op = "from_yaml" /\ Len(last.loadedAt) > 0
    /\ \E i \in 1..Len(last.log) : last.log[i].kind = "BlueprintLoaded"
    /\ groups # <<>> /\ campaigns # <<>> /\ overrides # {}
    /\ \E c \in DOMAIN campVariants : campVariants[c] # <<>>
    /\ \E id \in VariantIds : vgroups[id] # <<>>

\* the hooks that are loaded and add VECTR's keys to the payload
VectrHooks == {h \in Hooks : enabled /\ hookMode[h] = "vectr"}

\* the TestCaseRender deliveries of the last render
RenderDeliveries ==
    {i \in 1..Len(last.log) : last.log[i].kind = "TestCaseRender"}

SameEvent(log, i, j) == log[i].kind = log[j].kind /\ log[i].ctx = log[j].ctx

\* C16: all hooks receive the events in the same order: when a hook
\* receives an event before another event, no hook receives the two the
\* other way round.  Stated of the events of the import, which differ from
\* one another.
C16_SameOrderForAllHooks ==
    last.op = "import" =>
        \A i, j, k, l \in 1..Len(last.log) :
           ~ /\ i < j /\ last.log[i].hook = last.log[j].hook
             /\ k < l /\ last.log[k].hook = last.log[l].hook
             /\ SameEvent(last.log, i, l)
             /\ SameEvent(last.log, j, k)

C18_CliExitAfterCliStart ==
    (last.op = "generate" /\ enabled /\ hookMode = AllOk
     /\ Emitted(last.steps, "CliStart") = 1) =>
        Emitted(last.steps, "CliExit") = 1

\* the checks whose check() the last operation called, in order
ChecksCalled ==
    [i \in 1..Len(SelectSeq(last.steps, LAMBDA s : s.step = "check")) |->
        SelectSeq(last.steps, LAMBDA s : s.step = "check")[i].kind]

\* C19: run_all calls the check() of every registered check and returns
\* the conjunction of their results, also when the first one fails; with
\* run_checks off it returns true and calls no check().
C19_RunAllRunsEveryCheck ==
    last.op = "run_all" =>
        /\ ~last.raised
        /\ IF run_checks
           THEN /\ ChecksCalled = Subclasses
                /\ last.result =
                     Some(/\ last.variant.tactic \in
                                get_valid_tactic_ids_for_tid(last.variant.tid)
                          /\ PathTid(Val(last.variant.filepath)) = last.variant.tid)
           ELSE /\ ChecksCalled = <<>>
                /\ last.result = Some(TRUE)

\* a run_all that returned false for a Variant that fails the first check
\* and passes the second, after it called both
C19_Witness ==
    /\ last.op = "run_all" /\ run_checks
    /\ last.variant.tactic = "TA9"
    /\ PathTid(Val(last.variant.filepath)) = last.variant.tid
    /\ ChecksCalled = Subclasses
    /\ last.result = Some(FALSE)
    /\ last.errors = 1

\* C20: with the checks enabled, the construction of a Variant runs
\* VariantTidPathTidMatch without error: for a Variant with no filepath the
\* check returns true, so the construction succeeds, and for one with a
\* filepath it returns whether the technique segment of the path is the
\* Variant's tid.
C20_PathCheckPassesWithoutPath ==
    (last.op = "construct" /\ run_checks) =>
        /\ ~last.raised
        /\ last.result =
             Some(IF IsNone(last.variant.filepath) THEN TRUE
                  ELSE PathTid(Val(last.variant.filepath)) = last.variant.tid)

\* the last operation parsed and evaluated a selector
Selected == last.op = "select"

\* the predicate is written key==value or key~=value on the name or the tid,
\* without quotes and without an operator inside the value
PlainPred(p) ==
    /\ p.key \in {s_name, s_tid}
    /\ p.op \in {"==", "~="}
    /\ ~p.quoted
    /\ ~contains(p.value, <<"=", "=">>)
    /\ ~contains(p.value, <<"~", "=">>)

\* the row satisfies the predicate as the selector language defines it
Satisfies(row, p) ==
    IF p.op = "==" THEN row[column(p.key)] = p.value
    ELSE contains(lower(row[column(p.key)]), lower(p.value))

\* C21: for a selector string selector(Variant p1 ... pn), from_str followed
\* by get_matches returns exactly the stored Variants that satisfy every
\* predicate, where key==value is exact equality and key~=value is
\* case-insensitive substring containment, and it returns the empty list,
\* not an error, when no Variant satisfies them all.
C21_MatchesAreTheRowsSatisfyingAll ==
    (Selected /\ lower(last.input.type) = lower(s_Variant)
     /\ \A i \in DOMAIN last.input.preds : PlainPred(last.input.preds[i]))
    => /\ ~last.raised
       /\ last.result =
            {row \in variants :
                \A i \in DOMAIN last.input.preds :
                    Satisfies(row, last.input.preds[i])}

\* C22: from_str preserves every quoted predicate value: the value of the
\* parsed filter is the value written between the quotes, also when it holds
\* a space, a closing parenthesis, the word selector( or the type name
\* followed by a space.
C22_QuotedValueIsPreserved ==
    (Selected /\ \A i \in DOMAIN last.input.preds : last.input.preds[i].quoted)
    => /\ ~last.raised
       /\ Len(last.filters) = Len(last.input.preds)
       /\ \A i \in DOMAIN last.input.preds :
            last.filters[i].value = Some(last.input.preds[i].value)

\* the list of prerequisites the program reads from the row
PrerequisitesOf(row) == Val(process_result_value(row.prerequisites))

\* C23: a Variant selector with the bare special key RequiresLadmin matches
\* exactly the stored Variants whose prerequisites list contains the item
\* local_admin, whatever other items the list holds.
C23_RequiresLadminIsListMembership ==
    (Selected /\ Len(last.input.preds) = 1 /\ last.input.preds[1].op = ""
     /\ lower(last.input.preds[1].key) = lower(VariantSelectorKey[5]))
    => /\ ~last.raised
       /\ last.result =
            {row \in variants :
                \E i \in DOMAIN PrerequisitesOf(row) :
                    PrerequisitesOf(row)[i] = s_local_admin}

\* C27: for every non-null list of strings whose items do not contain the
\* delimiter, the empty list and the one-element list included,
\* process_result_value(process_bind_param(list)) is the list.
C27_StrListRoundTrip ==
    (last.op = "round_trip"
     /\ \A i \in DOMAIN last.value : ~contains(last.value[i], db_text_delimiter))
    => last.result = Some(last.value)

\* C24: for every Variant and every argument combination, the dictionary
\* render returns, before a hook changes it, has description, platforms,
\* guidance, block, detect and controls at top level and a metadata block
\* with id, tid, tactic, tools and references, also when the Variant's tools
\* or references are empty.
C24_RenderedDictHasEveryField ==
    (last.op = "render" /\ ~last.raised /\ hookMode = AllOk)
    => /\ {"description", "platforms", "guidance", "block", "detect",
           "controls", "metadata"} \subseteq DOMAIN Val(last.result)
       /\ {"id", "tid", "tactic"} \subseteq DOMAIN Val(last.result).metadata
       /\ ~IsNone(Val(last.result).metadata.x_tools)
       /\ ~IsNone(Val(last.result).metadata.x_references)

\* the required settings hook h reads at the start event, when it is one of
\* its start events
RequiredAt(h, event) ==
    IF h = "graphviz" /\ event = "CliStart" THEN {"svg_path"}
    ELSE IF h = "partials" /\ event = "DbReady" THEN {"file"}
    ELSE IF h = "guidance" /\ event = "DbReady" THEN {"mapping", "paths"}
    ELSE IF h = "guidance" /\ event = "CliStart"
    THEN {"mapping", "paths", "opnotebook"}
    ELSE {}

\* every shipped extension is disabled
AllDisabled(fp) == \A h \in DOMAIN fp : ~fp[h].enabled

\* C25: a shipped hook that finds a required Setting missing when its start
\* event arrives marks itself disabled without raising, and while the hooks
\* are disabled no later event and no record insertion changes stored
\* content (the inserted record is stored as it was given) or writes output.
C25_DisabledHookLeavesNoTrace ==
    /\ last.op = "emit" =>
         \A h \in DOMAIN firstParty :
            (\E name \in RequiredAt(h, last.event) :
                MissingValue(last.before.fp[h][name]))
            => ~last.raised /\ ~firstParty[h].enabled
    /\ (last.op \in {"emit", "insert"} /\ AllDisabled(last.before.fp)
        /\ AllDisabled(firstParty))
       => /\ variants = last.before.variants
                        \cup (IF last.op = "insert" THEN {last.row} ELSE {})
          /\ tables = last.before.tables
          /\ written = last.before.written

\* C30: after any sequence of Blueprint loads each Group occurs at most
\* once in any Variant's groups list (and so, the two lists being the two
\* ends of one relationship, each Variant at most once in any Group's
\* variants list), also when one Variant is entered under several Campaigns
\* of a Blueprint that has a Group for its tid.
C30_GroupOnceInVariantsGroups ==
    \A v \in variants :
        \A i, j \in DOMAIN vgroups[v.id] :
            vgroups[v.id][i] = vgroups[v.id][j] => i = j

\* C26: Variant.render and the exports built on it (manifest, summary,
\* sub-library, Navigator layer) leave the Content Store unchanged: with the
\* shipped TestCaseRender hooks vectr and attackmigrate registered, every
\* step that is a render or an export leaves every Variant's fields, every
\* Override, every Campaign with its Variants and every Group with its
\* memberships as they were.
C26_RenderAndExportsLeaveStore ==
    [][last'.op \in {"render", "export"} =>
          UNCHANGED <<variants, blueprints, groups, campaigns, campVariants,
                      overrides, vgroups>>]_vars

\* a manifest was exported in which attackmigrate replaced the Technique ID
\* of a Variant and vectr added its keys, and the Variant's row still has
\* the Technique ID it was ingested with
C26_ExportedWithMigratedTid ==
    /\ last.op = "export"
    /\ last.export_type = "manifest"
    /\ \E i \in DOMAIN last.manifest :
          /\ last.manifest[i].rendered.metadata.tid = "T1574.001"
          /\ "x_vectr_id" \in DOMAIN last.manifest[i].rendered.metadata
          /\ \E v \in variants :
                v.id = last.manifest[i].variant /\ v.tid = "T1574.002"

\* the machine an operation starts on when the store holds the given rows
MachineAt(rows) ==
    [Machine EXCEPT !.groups = rows.groups, !.campaigns = rows.campaigns,
                    !.campVariants = rows.campVariants,
                    !.overrides = rows.overrides, !.vgroups = rows.vgroups]

\* what render(v, apply_overrides=True, blueprint_id=A) can return on m
Renders(m, v, A) ==
    {render(m, v, TRUE, Some(A), first).result :
        first \in FirstOverride(m, v, TRUE, Some(A))}

\* the Variants entered in a campaign of Blueprint A
VariantsOf(A) ==
    {v \in variants :
        \E i \in DOMAIN campaigns :
            /\ campaigns[i].blueprint_id = A
            /\ \E k \in DOMAIN campVariants[campaigns[i].id] :
                  campVariants[campaigns[i].id][k] = v.id}

\* the names of the Groups of Blueprint A
GroupNamesOf(A) ==
    {groups[i].name : i \in {j \in DOMAIN groups : groups[j].blueprint_id = A}}

\* C28: loading a further Blueprint B does not change what
\* render(v, apply_overrides=True, blueprint_id=A) returns for a Variant v of
\* an already loaded Blueprint A, under either value of add_groups, and the
\* groups list of the rendered dictionary names only Groups of Blueprint A.
C28_LaterBlueprintLeavesRender ==
    (last.op = "from_yaml" /\ "before" \in DOMAIN last
       /\ ~last.raised /\ last.blueprint > 1)
    => \A A \in 1..(last.blueprint - 1) : \A v \in VariantsOf(A) :
          /\ Renders(MachineAt(last.before), v, A) = Renders(Machine, v, A)
          /\ \A r \in Renders(Machine, v, A) :
                IsNone(Val(r).metadata.groups)
                \/ Val(Val(r).metadata.groups) \subseteq GroupNamesOf(A)

\* the Overrides a Campaign's entry of a Variant created
OwnOverrides(variant_id, campaign_id) ==
    {o \in overrides : o.variant_id = variant_id /\ o.campaign_id = campaign_id}

\* C29: when the same Variant is entered in two Campaigns of one Blueprint
\* with different override blocks, the manifest of gen_manifest_from_campaigns
\* renders the Variant under each Campaign with that Campaign's own Override,
\* never with the Override created for the other Campaign: the name and the
\* guidance of each manifest entry are those of an Override of its Campaign.
C29_ManifestUsesCampaignsOwnOverride ==
    (last.op = "export" /\ last.export_type = "manifest" /\ ~last.raised)
    => \A i \in DOMAIN last.manifest :
          OwnOverrides(last.manifest[i].variant, last.manifest[i].campaign) # {}
          => \E o \in OwnOverrides(last.manifest[i].variant,
                                   last.manifest[i].campaign) :
               \E v \in variants :
                  /\ v.id = last.manifest[i].variant
                  /\ last.manifest[i].rendered.name =
                        RenderDict(Machine, v, Some(o)).name
                  /\ last.manifest[i].rendered.guidance =
                        RenderDict(Machine, v, Some(o)).guidance

====
